---- MODULE Spec2Model ----
(***************************************************************************)
(* Order service: bounded FIFO cache (internal/service/cache), read-through *)
(* order service with single-flight coalescing (internal/service/order).   *)
(*                                                                         *)
(* SpecCache : callers invoke Cache.Set / Cache.Get directly; every        *)
(*             statement inside the critical section is one step, the     *)
(*             sync.RWMutex is explicit.                                   *)
(* Spec      : callers invoke orderService.Get / orderService.Create; a    *)
(*             cache call is one step (its body runs under c.mu).          *)
(***************************************************************************)
EXTENDS Naturals, Integers, Sequences, FiniteSets, TLC

\* ------------------------------------------------------------------ bounds
NumThreads == 2
NumKeys == 3
MaxLimit == 2
MaxHist == 3
MaxVer == 2
NumIds == 1
MaxCalls == 3
MaxCreates == 1
NumOrders == 2
MaxMsgs == 2
MaxItems == 1
MaxSmID == 1
NumChrt == 2

\* NewCache: limit: 10
DefaultLimit == 10

Threads == 1..NumThreads
Keys == 1..NumKeys
\* the order ids callers of the service ask for
Ids == 1..NumIds
\* the order ids the writer and the consumer handle
OrderIds == 1..NumOrders
\* a *model.Order: the document with this id (OrderUID) in its version ver
Order(id, ver) == [uid |-> id, ver |-> ver]
\* the nil *model.Order
Nil == Order(0, 0)
\* the orders a caller can hold for id k
Values(k) == {Order(k, v) : v \in 1..MaxVer}
\* no goroutine
NoThread == 0

\* c.limit: 10 after NewCache; the tests assign the field right after
\* construction (c.limit = 2), before any call.
Limits == (1..MaxLimit) \cup {DefaultLimit}

VARIABLES
    cache,    \* Cache: [data, order, limit]
    mu,       \* Cache.mu (sync.RWMutex): [writer, readers]
    pc,       \* per goroutine: position in the call it is executing
    key,      \* per goroutine: the key / id argument of its call
    val,      \* per goroutine: the value argument of its Set
    ret,      \* per goroutine: what its Get returned
    hist,     \* history: keys in the order their inserting Set took the lock
    expect,   \* history: per key, the value of its last Set, Nil when the
              \* key was never set or was evicted and not set again
    store,    \* the orders table behind repo: per id, the version stored
    group,    \* orderService.group (singleflight.Group): calls in flight
    fres,     \* per goroutine: what repo.GetOrder / fn returned to it
    call,     \* history: per goroutine, what its current Get has done
    ev,       \* history: the Get calls that returned in the last step, and
              \* what fn had returned to group.Do for them
    nfSeen,   \* history: per id, whether a Get returned ErrNotFound and a
              \* Create stored the id after that
    ncalls,   \* history: number of Get calls started
    nids,     \* history: number of ids callers have named so far
    ncreates, \* history: number of Create calls that stored an order
    wr,       \* the goroutine calling Create and UpdateCache: its position,
              \* the orders UpdateCache has still to set, and the history
              \* of its current or last call
    cons,     \* Consumer.Run: its position, the messages of the source
              \* topic not yet read, the dead-letter topic, and history
    vcall,    \* a validateOrder call: its argument and what it returned
    db,       \* the tables behind OrderRepository and the transaction of
              \* the UpsertOrder call in progress
    http      \* the HTTP order endpoint: the last request and its response

cacheVars == <<mu, val, ret, hist, expect>>
svcVars ==
    <<store, group, fres, call, ev, nfSeen, ncalls, nids, ncreates, wr, cons,
      vcall, db, http>>
vars == <<cache, pc, key, cacheVars, svcVars>>

\* ------------------------------------------------------------- sequences
Last(s) == s[Len(s)]

Range(s) == {s[i] : i \in DOMAIN s}

\* s without its element at position i
RemoveAt(s, i) == SubSeq(s, 1, i - 1) \o SubSeq(s, i + 1, Len(s))

\* f without k in its domain
MapDelete(f, k) == [x \in (DOMAIN f) \ {k} |-> f[x]]

\* f with k mapped to e
MapPut(f, k, e) == [x \in (DOMAIN f) \cup {k} |-> IF x = k THEN e ELSE f[x]]

\* ------------------------------------------------------------------ Cache
\* entry{key, value}
Entry(k, v) == [key |-> k, value |-> v]

\* NewCache with the limit field as the caller left it
NewCache(lim) == [data |-> <<>>, order |-> <<>>, limit |-> lim]

\* the keys of the FIFO list, front first
OrderKeys(c) == [i \in DOMAIN c.order |-> c.order[i].key]

\* elem.Value.(*entry) for the list element the index maps k to: c.data[k]
\* is the element, named here by the key its entry carries
ElemEntry(c, k) ==
    LET e == c.data[k]
        at == {i \in DOMAIN c.order : c.order[i].key = e}
    IN  IF at = {} THEN Entry(e, Nil) ELSE c.order[CHOOSE i \in at : TRUE]

\* (nil, false)
NoRet == [value |-> Nil, ok |-> FALSE]

\* Cache.Get between RLock and RUnlock
CacheGet(c, k) ==
    IF k \notin DOMAIN c.data
    THEN [value |-> Nil, ok |-> FALSE]
    ELSE [value |-> ElemEntry(c, k).value, ok |-> TRUE]

\* the list with the element carrying key k moved behind all others
MoveToBack(c, k) ==
    LET at == {i \in DOMAIN c.order : c.order[i].key = k}
    IN  IF at = {} THEN c
        ELSE LET i == CHOOSE j \in at : TRUE
             IN  [c EXCEPT !.order = Append(RemoveAt(c.order, i), c.order[i])]

\* a Get that refreshes the entry it reads, as an LRU cache would
CacheAfterGetTouch(c, k) ==
    IF k \in DOMAIN c.data THEN MoveToBack(c, c.data[k]) ELSE c

\* Cache.Get leaves the cache as it is
CacheAfterGet(c, k) == c

\* an update that also moves the entry to the back of the list
SetUpdateMovesToBack(c, k, v) ==
    MoveToBack(
        [c EXCEPT !.order =
            [i \in DOMAIN c.order |->
                IF c.order[i].key = c.data[k]
                THEN Entry(c.order[i].key, v) ELSE c.order[i]]],
        c.data[k])

\* an update that leaves the stored value as it was
SetUpdateKeepsValue(c, k, v) == c

\* Cache.Set, key present: elem.Value.(*entry).value = value
SetUpdate(c, k, v) ==
    [c EXCEPT !.order =
        [i \in DOMAIN c.order |->
            IF c.order[i].key = c.data[k]
            THEN Entry(c.order[i].key, v) ELSE c.order[i]]]

\* a limit check that lets the list grow one past the limit
SetMustEvictWhenOver(c) == Len(c.order) > c.limit /\ Len(c.order) > 0

\* Cache.Set: c.order.Len() >= c.limit, with a non-nil Front
SetMustEvict(c) == Len(c.order) >= c.limit /\ Len(c.order) > 0

\* the newest element taken for the oldest
OldestIsBack(c) == Len(c.order)

\* Cache.Set: oldest := c.order.Front(), as a position in the list
Oldest(c) == 1

\* Cache.Set: delete(c.data, ent.key) for ent := oldest.Value.(*entry)
SetEvictIndex(c) ==
    [c EXCEPT !.data = MapDelete(c.data, c.order[Oldest(c)].key)]

\* an eviction that empties the list
SetEvictListAll(c) == [c EXCEPT !.order = <<>>]

\* Cache.Set: c.order.Remove(oldest)
SetEvictList(c) == [c EXCEPT !.order = RemoveAt(c.order, Oldest(c))]

\* an insert at the front of the list
SetPushFront(c, k, v) == [c EXCEPT !.order = <<Entry(k, v)>> \o c.order]

\* Cache.Set: c.order.PushBack(&entry{key, value})
SetPush(c, k, v) == [c EXCEPT !.order = Append(c.order, Entry(k, v))]

\* an insert that leaves the index as it was
SetIndexSkipped(c, k) == c

\* Cache.Set: c.data[key] = elem
SetIndex(c, k) == [c EXCEPT !.data = MapPut(c.data, k, k)]

\* Cache.Set between Lock and Unlock, as one step
CacheSet(c, k, v) ==
    IF k \in DOMAIN c.data
    THEN SetUpdate(c, k, v)
    ELSE LET room == IF SetMustEvict(c)
                     THEN SetEvictList(SetEvictIndex(c)) ELSE c
         IN  SetIndex(SetPush(room, k, v), k)

\* ---------------------------------------------------------- sync.RWMutex
MuFree == [writer |-> NoThread, readers |-> {}]

\* mu.Lock() may return: no writer and no reader holds it
CanLock(m) == m.writer = NoThread /\ m.readers = {}

\* a read lock that is granted while a writer holds the mutex
CanRLockAnyTime(m) == TRUE

\* mu.RLock() may return: no writer holds it
CanRLock(m) == m.writer = NoThread

\* --------------------------------------------------------- orderService
\* (order, err) as a Go call returns it
Result(o, e) == [order |-> o, err |-> e]

\* the nil error
NoErr == "nil"
\* nothing returned yet
NoResult == Result(Nil, NoErr)

\* repository.ErrNotFound
ErrNotFound == "ErrNotFound"
\* any other error of the database (fmt.Errorf("select orders: %w", err), ...)
ErrIO == "ErrIO"

\* repo.GetOrder(ctx, id): ErrNotFound for no row, the wrapped database
\* error when a query fails, the stored order otherwise
RepoGetOrder(st, id, fails) ==
    IF fails THEN Result(Nil, ErrIO)
    ELSE IF st[id] = 0 THEN Result(Nil, ErrNotFound)
    ELSE Result(Order(id, st[id]), NoErr)

\* repo.UpsertOrder(ctx, order) in one transaction: the rows of order.uid
\* become those of order, or nothing changes and the error is returned
RepoUpsertOrder(st, o, fails) ==
    IF fails THEN [store |-> st, err |-> ErrIO]
    ELSE [store |-> [st EXCEPT ![o.uid] = o.ver], err |-> NoErr]

\* no call in progress
NoCall ==
    [start |-> "none", nfetch |-> 0, nset |-> 0, src |-> "none",
     overlap |-> FALSE]

\* no Get returned in the last step
NoEvent == [id |-> 0, src |-> "none", fn |-> NoResult, callers |-> {}]

\* singleflight: the call in flight for a key
Flight(t) == [leader |-> t, waiters |-> {}]

\* the writer is between calls, nothing called yet
NoWrite ==
    [pc |-> "idle", todo |-> <<>>, op |-> "none", err |-> NoErr,
     upserts |-> <<>>, recents |-> <<>>, got |-> <<>>, sets |-> <<>>,
     before |-> NewCache(0)]

\* ctx.Err() once the context is cancelled or past its deadline
ErrCanceled == "ErrCanceled"

\* what c.reader.ReadMessage(ctx) returns when it returns no message: the
\* error of the reader, or ctx.Err()
ReadErrors == {"ErrRead", ErrCanceled}

\* a call given ctx fails on its own or because ctx is done: UpsertOrder
\* derives its context from ctx and begins its transaction with it, the
\* writer waits for its batch under ctx
CtxFails(ctx, fails) == fails \/ ctx # NoErr

\* no consumer running
NoConsumer == [pc |-> "off"]

\* no validateOrder call made
NoValidate == [pc |-> "off"]

\* no database opened
NoDb == [pc |-> "off"]

\* the chrt_id values of order items
ChrtIds == 1..NumChrt

\* ord.Items: the items of an order, by chrt_id
ItemSeqs ==
    {s \in UNION {[1..n -> ChrtIds] : n \in 0..NumChrt} :
        \A i \in DOMAIN s, j \in DOMAIN s : i < j => s[i] < s[j]}

\* the *model.Order given to UpsertOrder: its id, the version of its
\* order, delivery and payment data, and its items
FullOrders == [uid : OrderIds, ver : 1..MaxVer, items : ItemSeqs]

\* the row of table items for item chrt of order o
ItemRow(o, chrt) == [uid |-> o.uid, chrt |-> chrt, ver |-> o.ver]

\* the rows table items can hold, but for their serial id
ItemRows == [uid : OrderIds, chrt : ChrtIds, ver : 1..MaxVer]

\* the tables orders, deliveries, payments (per order_uid the version of
\* the row, 0 when there is none) and items (how many rows it holds of
\* each content, its key being a serial id), all empty
NoTables ==
    [orders |-> [k \in OrderIds |-> 0],
     deliveries |-> [k \in OrderIds |-> 0],
     payments |-> [k \in OrderIds |-> 0],
     items |-> [r \in ItemRows |-> 0]]

\* UpsertOrder: INSERT INTO orders ... ON CONFLICT (order_uid) DO UPDATE
ExecUpsertOrders(t, o) == [t EXCEPT !.orders[o.uid] = o.ver]

\* UpsertOrder: INSERT INTO deliveries ... ON CONFLICT DO UPDATE
ExecUpsertDeliveries(t, o) == [t EXCEPT !.deliveries[o.uid] = o.ver]

\* UpsertOrder: INSERT INTO payments ... ON CONFLICT DO UPDATE
ExecUpsertPayments(t, o) == [t EXCEPT !.payments[o.uid] = o.ver]

\* an upsert that keeps the items the order had
ExecDeleteNoItems(t, o) == t

\* an upsert that deletes the items of older versions of the order only
ExecDeleteOlderItems(t, o) ==
    [t EXCEPT !.items = [r \in ItemRows |->
                           IF r.uid = o.uid /\ r.ver < o.ver
                           THEN 0 ELSE t.items[r]]]

\* UpsertOrder: DELETE FROM items WHERE order_uid = $1
ExecDeleteItems(t, o) ==
    [t EXCEPT !.items = [r \in ItemRows |->
                           IF r.uid = o.uid THEN 0 ELSE t.items[r]]]

\* UpsertOrder: INSERT INTO items ... for one item of ord.Items
ExecInsertItem(t, o, chrt) ==
    [t EXCEPT !.items[ItemRow(o, chrt)] = @ + 1]

\* a failed transaction that leaves behind what its statements wrote
TxRollbackKeeps(tables, tx) == tx

\* UpsertOrder: the deferred tx.Rollback() of a transaction not committed
TxRollback(tables, tx) == tables

\* UpsertOrder: tx.Commit()
TxCommit(tables, tx) == tx

\* no HTTP server started
NoHttp == [pc |-> "off"]

\* a body that is not the JSON of an order
Garbage == [json |-> FALSE, order |-> Nil, missing |-> {}]

\* the JSON of order o, missing naming the fields validateOrder requires
\* and the document lacks
Doc(o, missing) == [json |-> TRUE, order |-> o, missing |-> missing]

\* kafka.Message as read from the source topic: Key, Value, Headers
Message(k, body) ==
    [key |-> k, value |-> body,
     headers |-> <<[key |-> "h", value |-> k]>>]

\* no message in hand
NoMessage == Message(0, Garbage)

\* json.Unmarshal(m.Value, &o): the error, or the order decoded
Unmarshal(body) ==
    IF body.json THEN [order |-> body, err |-> NoErr]
    ELSE [order |-> Garbage, err |-> "ErrJSON"]

\* the fields of model.Order that validateOrder reads and that hold a
\* string
StringFields ==
    {"order_uid", "track_number", "entry", "customer_id",
     "delivery_service", "shardkey", "oof_shard"}

\* the fields of model.Order that validateOrder reads: items stands for
\* len(o.Items), date_created for the instant (0 is the zero time.Time)
OrderFields == StringFields \cup {"items", "date_created", "sm_id"}

\* the values a field takes: "" is the empty string
FieldValues(f) ==
    IF f \in StringFields THEN {"", "x"}
    ELSE IF f = "items" THEN 0..MaxItems
    ELSE IF f = "date_created" THEN 0..1
    ELSE (0 - MaxSmID)..MaxSmID

\* the *model.Order values validateOrder may be given, field by field
FieldOrders ==
    [order_uid : FieldValues("order_uid"),
     track_number : FieldValues("track_number"),
     entry : FieldValues("entry"),
     customer_id : FieldValues("customer_id"),
     delivery_service : FieldValues("delivery_service"),
     shardkey : FieldValues("shardkey"),
     oof_shard : FieldValues("oof_shard"),
     items : FieldValues("items"),
     date_created : FieldValues("date_created"),
     sm_id : FieldValues("sm_id")]

\* the nil *model.Order given to validateOrder
NilOrder == [f \in {"nil"} |-> TRUE]

\* the Go zero value a field has when the JSON document lacks it
ZeroValue(f) == IF f \in StringFields THEN "" ELSE 0

\* the order json.Unmarshal builds from a document lacking the fields in
\* missing
Decoded(missing) ==
    [f \in OrderFields |->
        IF f \in missing THEN ZeroValue(f)
        ELSE IF f \in StringFields THEN "x" ELSE 1]

\* validateOrder: the checks in the order of the source, each with the
\* text it appends to errs
Rules ==
    <<[field |-> "order_uid", text |-> "order_uid is required"],
      [field |-> "track_number", text |-> "track_number is required"],
      [field |-> "entry", text |-> "entry is required"],
      [field |-> "customer_id", text |-> "customer_id is required"],
      [field |-> "delivery_service",
       text |-> "delivery_service is required"],
      [field |-> "shardkey", text |-> "shardkey is required"],
      [field |-> "oof_shard", text |-> "oof_shard is required"],
      [field |-> "items", text |-> "items must be non-empty"],
      [field |-> "date_created", text |-> "date_created must be set"],
      [field |-> "sm_id", text |-> "sm_id must be >= 0"]>>

\* a range check that rejects sm_id 0 as well
ViolatesStrict(o, f) ==
    IF f \in StringFields THEN o[f] = ""
    ELSE IF f = "items" THEN o[f] = 0
    ELSE IF f = "date_created" THEN o[f] = 0
    ELSE o[f] <= 0

\* validateOrder: the condition of the if statement that checks field f
Violates(o, f) ==
    IF f \in StringFields THEN o[f] = ""
    ELSE IF f = "items" THEN o[f] = 0
    ELSE IF f = "date_created" THEN o[f] = 0
    ELSE o[f] < 0

\* validation that gives up at the first failed check
RECURSIVE ErrsFirstOnly(_, _)
ErrsFirstOnly(o, n) ==
    IF n = 0 THEN <<>>
    ELSE LET errs == ErrsFirstOnly(o, n - 1)
         IN  IF errs = <<>> /\ Violates(o, Rules[n].field)
             THEN Append(errs, Rules[n].text)
             ELSE errs

\* validateOrder: errs after the first n checks
RECURSIVE Errs(_, _)
Errs(o, n) ==
    IF n = 0 THEN <<>>
    ELSE LET errs == Errs(o, n - 1)
         IN  IF Violates(o, Rules[n].field)
             THEN Append(errs, Rules[n].text)
             ELSE errs

\* an error value: its text up to the joined parts, and the parts that
\* strings.Join(errs, "; ") puts after it
Error(text, parts) == [text |-> text, parts |-> parts]

\* the nil error
NilError == Error("nil", <<>>)

\* validateOrder(o)
validateOrder(o) ==
    IF o = NilOrder THEN Error("order is nil", <<>>)
    ELSE LET errs == Errs(o, Len(Rules))
         IN  IF Len(errs) > 0 THEN Error("validation failed: ", errs)
             ELSE NilError

\* validateOrder(&o) for a decoded document: nil, or the error naming
\* what is missing
ValidateOrder(doc) ==
    IF validateOrder(Decoded(doc.missing)) = NilError THEN NoErr
    ELSE "ErrValidation"

\* a decode failure forwarded under the reason invalid_payload
ReasonDecodePayload == "invalid_payload"

\* Run: the reason given to sendToDLQ after a failed json.Unmarshal
ReasonDecode == "invalid_json"

\* validation and Create failures forwarded under one reason
ReasonValidateBusiness == "business_error"

\* Run: the reason given to sendToDLQ after a failed validateOrder
ReasonValidate == "schema_validation"

\* Run: the reason given to sendToDLQ after a failed svc.Create
ReasonCreate == "business_error"

\* a dead-letter message that carries the diagnostic headers only
DlqMessageOwnHeaders(m, reason, cause, topic) ==
    [key |-> m.key, value |-> m.value,
     headers |->
        <<[key |-> "error", value |-> <<reason, cause>>],
          [key |-> "origin-topic", value |-> topic],
          [key |-> "timestamp", value |-> "now"]>>]

\* sendToDLQ: dlqMsg, the source message with the diagnostic headers
\* appended; errText is fmt.Sprintf("%s: %v", reason, cause)
DlqMessage(m, reason, cause, topic) ==
    [key |-> m.key, value |-> m.value,
     headers |-> m.headers \o
        <<[key |-> "error", value |-> <<reason, cause>>],
          [key |-> "origin-topic", value |-> topic],
          [key |-> "timestamp", value |-> "now"]>>]

\* a sendToDLQ that writes although no dead-letter topic is configured
SendToDLQAlways(on, dlq, m, reason, cause, topic, fails) ==
    IF fails THEN [dlq |-> dlq, err |-> "ErrWrite", writes |-> 1]
    ELSE [dlq |-> Append(dlq, DlqMessage(m, reason, cause, topic)),
          err |-> NoErr, writes |-> 1]

\* a send that reports success without writing the record
SendToDLQDropsRecord(on, dlq, m, reason, cause, topic, fails) ==
    IF ~on THEN [dlq |-> dlq, err |-> NoErr, writes |-> 0]
    ELSE IF fails THEN [dlq |-> dlq, err |-> "ErrWrite", writes |-> 1]
    ELSE [dlq |-> dlq, err |-> NoErr, writes |-> 1]

\* sendToDLQ: nil without a write when c.dlqWriter == nil; otherwise one
\* WriteMessages, whose error is returned
SendToDLQ(on, dlq, m, reason, cause, topic, fails) ==
    IF ~on THEN [dlq |-> dlq, err |-> NoErr, writes |-> 0]
    ELSE IF fails THEN [dlq |-> dlq, err |-> "ErrWrite", writes |-> 1]
    ELSE [dlq |-> Append(dlq, DlqMessage(m, reason, cause, topic)),
          err |-> NoErr, writes |-> 1]

\* a Run that returns on cancellation only and reads again after any
\* other read error
RunAfterReadRetries(err) ==
    IF err = NoErr THEN "decode"
    ELSE IF err = "ErrCanceled" THEN "closed" ELSE "read"

\* Run after c.reader.ReadMessage: if err != nil { return err }, else on
\* to the decoding of the message
RunAfterRead(err) == IF err # NoErr THEN "closed" ELSE "decode"

\* a Run that hands an order to svc.Create whatever validateOrder said
RunAfterValidateGoesOn(err) == "create"

\* Run after validateOrder: on an error sendToDLQ and continue, else on
\* to svc.Create
RunAfterValidate(err) == IF err # NoErr THEN "dlq" ELSE "create"

\* a Run that returns when svc.Create fails
RunAfterCreateReturns(err) == IF err # NoErr THEN "closed" ELSE "read"

\* Run after svc.Create: on an error sendToDLQ and continue, else the
\* next message
RunAfterCreate(err) == IF err # NoErr THEN "dlq" ELSE "read"

\* a Run that returns the error of a failed dead-letter write
RunAfterDLQReturns(err) == IF err # NoErr THEN "closed" ELSE "read"

\* Run: _ = c.sendToDLQ(...); continue
RunAfterDLQ(err) == "read"

InitSvcVars ==
    /\ store = [k \in Keys |-> 0]
    /\ group = <<>>
    /\ fres = [t \in Threads |-> NoResult]
    /\ call = [t \in Threads |-> NoCall]
    /\ ev = NoEvent
    /\ nfSeen = [k \in Keys |-> "no"]
    /\ ncalls = 0
    /\ nids = 0
    /\ ncreates = 0
    /\ wr = NoWrite
    /\ vcall = NoValidate
    /\ db = NoDb
    /\ http = NoHttp
    /\ cons = NoConsumer

\* a Get that turns ErrNotFound into a nil order with a nil error
GetResultHidesNotFound(r) ==
    IF r.err = ErrNotFound THEN Result(Nil, NoErr)
    ELSE IF r.err # NoErr THEN Result(Nil, r.err) ELSE Result(r.order, NoErr)

\* a Get that answers every failure with one error of its own
GetResultReplacesError(r) ==
    IF r.err # NoErr THEN Result(Nil, "ErrGet") ELSE Result(r.order, NoErr)

\* orderService.Get after group.Do: if err != nil { return nil, err };
\* return res.(*model.Order), nil
GetResult(r) ==
    IF r.err # NoErr THEN Result(Nil, r.err) ELSE Result(r.order, NoErr)

\* fn skips the cache.Set after a fetch
FnAfterFetchNoSet(r) == "fn_done"

\* fn goes on to the cache.Set whatever repo.GetOrder returned
FnAfterFetchAlwaysSet(r) == "fn_set"

\* fn after repo.GetOrder: if err != nil { return nil, err }, else on to
\* the cache.Set
FnAfterFetch(r) == IF r.err # NoErr THEN "fn_done" ELSE "fn_set"

\* fn: _ = s.cache.Set(id, order)
FnCacheSet(c, id, o) == CacheSet(c, id, o)

\* a Get that takes every lookup for a miss
GetHitNever(r) == FALSE

\* Get: the exists of order, exists := s.cache.Get(id)
GetHit(r) == r.ok

\* what the history keeps of a caller when its Get returns out
Caller(role, c, out) ==
    [role |-> role, out |-> out, start |-> c.start, nfetch |-> c.nfetch,
     nset |-> c.nset, overlap |-> c.overlap]

\* a Create that stores the order but reports success whatever happened
ServiceCreateHidesError(st, o, fails) ==
    [store |-> RepoUpsertOrder(st, o, fails).store, err |-> NoErr,
     upserts |-> <<o>>]

\* orderService.Create: return s.repo.UpsertOrder(c, order); upserts are
\* the orders handed to repo.UpsertOrder
ServiceCreate(st, o, fails) ==
    LET r == RepoUpsertOrder(st, o, fails)
    IN  [store |-> r.store, err |-> r.err, upserts |-> <<o>>]

\* a Create that also puts the order it stored in the cache
CreateWritesThrough(c, o, err) ==
    IF err = NoErr THEN CacheSet(c, o.uid, o) ELSE c

\* a Create that replaces the cached order of the id it stored
CreateRefreshesCached(c, o, err) ==
    IF err = NoErr /\ CacheGet(c, o.uid).ok THEN CacheSet(c, o.uid, o) ELSE c

\* orderService.Create makes no cache call
CreateCacheEffect(c, o, err) == c

\* orderService.UpdateCache: s.repo.GetRecent(c, 10)
RecentCount == 10

\* the ids the store holds
Stored(st) == {k \in Keys : st[k] > 0}

\* the ways to put the elements of S in a row
Orderings(S) ==
    {q \in [1..Cardinality(S) -> S] :
        \A i, j \in 1..Cardinality(S) : q[i] = q[j] => i = j}

\* repo.GetRecent(ctx, limit): the database's error, or the first limit
\* stored orders of byDate, the stored ids ORDER BY date_created DESC
RepoGetRecent(st, limit, byDate, fails) ==
    IF fails THEN [orders |-> <<>>, err |-> ErrIO]
    ELSE LET n == IF Len(byDate) < limit THEN Len(byDate) ELSE limit
         IN  [orders |-> [i \in 1..n |-> Order(byDate[i], st[byDate[i]])],
              err |-> NoErr]

\* the error a Set of an InterfaceCache may return
ErrSet == "ErrSet"

\* s.cache.Set through InterfaceCache: Cache.Set, which returns nil, or an
\* implementation that returns an error and stores nothing
InterfaceSet(c, k, v, fails) ==
    IF fails THEN [cache |-> c, err |-> ErrSet]
    ELSE [cache |-> CacheSet(c, k, v), err |-> NoErr]

\* every order set under one and the same key
SetKeyShared(o) == 1

\* UpdateCache: the key of s.cache.Set(order.OrderUID, order)
SetKeyOf(o) == o.uid

\* an UpdateCache that goes on with the next order after a failed Set
UpdateAfterSetGoesOn(err) == "uc_loop"

\* UpdateCache after a Set: if err != nil { return err }
UpdateAfterSet(err) == IF err # NoErr THEN "idle" ELSE "uc_loop"

\* ------------------------------------------- SpecCache: direct cache calls
histVars == <<hist, expect>>

InitCache ==
    /\ \E lim \in Limits : cache = NewCache(lim)
    /\ mu = MuFree
    /\ pc = [t \in Threads |-> "idle"]
    /\ key = [t \in Threads |-> 1]
    /\ val = [t \in Threads |-> Nil]
    /\ ret = [t \in Threads |-> NoRet]
    /\ hist = <<>>
    /\ expect = [k \in Keys |-> Nil]
    /\ InitSvcVars

\* Set: c.mu.Lock(); if elem, ok := c.data[key]; ok { update; return };
\* otherwise on to the limit check
SetEnter(t, k, v) ==
    /\ pc[t] = "idle"
    /\ Len(hist) < MaxHist
    /\ CanLock(mu)
    /\ mu' = [mu EXCEPT !.writer = t]
    /\ key' = [key EXCEPT ![t] = k]
    /\ val' = [val EXCEPT ![t] = v]
    /\ expect' = [expect EXCEPT ![k] = v]
    /\ IF k \in DOMAIN cache.data
       THEN /\ cache' = SetUpdate(cache, k, v)
            /\ hist' = hist
            /\ pc' = [pc EXCEPT ![t] = "set_unlock"]
       ELSE /\ cache' = cache
            /\ hist' = Append(hist, k)
            /\ pc' = [pc EXCEPT ![t] =
                        IF SetMustEvict(cache) THEN "set_evict_index"
                        ELSE "set_push"]
    /\ UNCHANGED <<ret, svcVars>>

\* Set: delete(c.data, ent.key)
SetDelete(t) ==
    /\ pc[t] = "set_evict_index"
    /\ cache' = SetEvictIndex(cache)
    /\ expect' = [expect EXCEPT ![cache.order[Oldest(cache)].key] = Nil]
    /\ pc' = [pc EXCEPT ![t] = "set_evict_list"]
    /\ UNCHANGED <<mu, key, val, ret, hist, svcVars>>

\* Set: c.order.Remove(oldest)
SetRemove(t) ==
    /\ pc[t] = "set_evict_list"
    /\ cache' = SetEvictList(cache)
    /\ pc' = [pc EXCEPT ![t] = "set_push"]
    /\ UNCHANGED <<mu, key, val, ret, histVars, svcVars>>

\* Set: elem := c.order.PushBack(ent)
SetPushBack(t) ==
    /\ pc[t] = "set_push"
    /\ cache' = SetPush(cache, key[t], val[t])
    /\ pc' = [pc EXCEPT ![t] = "set_index"]
    /\ UNCHANGED <<mu, key, val, ret, histVars, svcVars>>

\* Set: c.data[key] = elem
SetStore(t) ==
    /\ pc[t] = "set_index"
    /\ cache' = SetIndex(cache, key[t])
    /\ pc' = [pc EXCEPT ![t] = "set_unlock"]
    /\ UNCHANGED <<mu, key, val, ret, histVars, svcVars>>

\* Set: deferred c.mu.Unlock(); return nil
SetUnlock(t) ==
    /\ pc[t] = "set_unlock"
    /\ mu' = [mu EXCEPT !.writer = NoThread]
    /\ pc' = [pc EXCEPT ![t] = "idle"]
    /\ key' = [key EXCEPT ![t] = 1]
    /\ val' = [val EXCEPT ![t] = Nil]
    /\ UNCHANGED <<cache, ret, histVars, svcVars>>

\* Get: c.mu.RLock(); elem, ok := c.data[key]; the value to return
GetEnter(t, k) ==
    /\ pc[t] = "idle"
    /\ CanRLock(mu)
    /\ mu' = [mu EXCEPT !.readers = @ \cup {t}]
    /\ key' = [key EXCEPT ![t] = k]
    /\ ret' = [ret EXCEPT ![t] = CacheGet(cache, k)]
    /\ cache' = CacheAfterGet(cache, k)
    /\ pc' = [pc EXCEPT ![t] = "get_runlock"]
    /\ UNCHANGED <<val, histVars, svcVars>>

\* Get: deferred c.mu.RUnlock(); return
GetRUnlock(t) ==
    /\ pc[t] = "get_runlock"
    /\ mu' = [mu EXCEPT !.readers = @ \ {t}]
    /\ pc' = [pc EXCEPT ![t] = "idle"]
    /\ key' = [key EXCEPT ![t] = 1]
    /\ ret' = [ret EXCEPT ![t] = NoRet]
    /\ UNCHANGED <<cache, val, histVars, svcVars>>

NextCache ==
    \/ \E t \in Threads, k \in Keys : \E v \in Values(k) : SetEnter(t, k, v)
    \/ \E t \in Threads : SetDelete(t)
    \/ \E t \in Threads : SetRemove(t)
    \/ \E t \in Threads : SetPushBack(t)
    \/ \E t \in Threads : SetStore(t)
    \/ \E t \in Threads : SetUnlock(t)
    \/ \E t \in Threads, k \in Keys : GetEnter(t, k)
    \/ \E t \in Threads : GetRUnlock(t)

SpecCache == InitCache /\ [][NextCache]_vars

\* a group.Do that hands each caller what that caller itself computed
DoResultOwn(t, u) == fres[u]

\* group.Do: c.val, c.err of the call led by t, as handed to its caller u
DoResult(t, u) == fres[t]

\* orderService.Get(ctx, id) of a caller running alone: the cached order
\* on a hit, otherwise the fetch through group.Do, with the cache.Set
\* after a successful fetch; gives the cache after the call and (order,
\* err)
ServiceGet(c, st, id, fails) ==
    LET hit == CacheGet(c, id)
        r == RepoGetOrder(st, id, fails)
    IN  IF GetHit(hit)
        THEN [cache |-> CacheAfterGet(c, id),
              res |-> Result(hit.value, NoErr)]
        ELSE [cache |-> IF FnAfterFetch(r) = "fn_set"
                        THEN FnCacheSet(c, id, r.order) ELSE c,
              res |-> GetResult(r)]

\* fiber.StatusOK
StatusOK == 200

\* fiber.StatusBadRequest
StatusBadRequest == 400

\* the path parameter order_uid when it is empty
EmptyId == 0

\* getOrderHandler: the response written for order_uid id after
\* h.Order.Get returned res: the error response for an empty id,
\* otherwise StatusOK with the JSON of the order (null for a nil order),
\* the error of Get being logged only
HandlerResponse(id, res) ==
    IF id = EmptyId
    THEN [status |-> StatusBadRequest, msg |-> "Invalid id", order |-> Nil]
    ELSE [status |-> StatusOK, msg |-> "", order |-> res.order]

\* ------------------------------------ Spec: orderService.Get and Create
\* the limit of the service's cache: NewCache's default, which never evicts
\* with these few ids, and the smallest limit, which evicts at every insert
\* of another id
SvcLimits == {1, DefaultLimit}

InitSvc ==
    /\ \E lim \in SvcLimits : cache = NewCache(lim)
    /\ mu = MuFree
    /\ pc = [t \in Threads |-> "idle"]
    /\ key = [t \in Threads |-> 1]
    /\ val = [t \in Threads |-> Nil]
    /\ ret = [t \in Threads |-> NoRet]
    /\ hist = <<>>
    /\ expect = [k \in Keys |-> Nil]
    /\ InitSvcVars

\* a call whose end does not wake the callers waiting for it
ReleasedLeaderOnly(t, ws) == {t}

\* group.Do: the goroutines that return when the call of leader t ends:
\* the leader, and the waiters ws released by c.wg.Done()
Released(t, ws) == ws \cup {t}

\* a group in which every call goes under one key
FlightKeyShared(id) == 1

\* Get: the key of s.group.Do(id, fn)
FlightKey(id) == id

\* goroutines are interchangeable: a new call runs on the lowest idle one
FreeThread(t) == pc[t] = "idle" /\ \A u \in 1..(t - 1) : pc[u] # "idle"

\* ids are interchangeable: the next id not named before is nids + 1
NamesId(id) ==
    /\ id <= nids + 1
    /\ nids' = IF id > nids THEN id ELSE nids

\* what the history notes as a Get(id) starts
StartOf(id) ==
    IF store[id] = 0 THEN "absent"
    ELSE IF nfSeen[id] = "created" THEN "stored_after_notfound"
    ELSE "stored"

\* Get: if order, exists := s.cache.Get(id); exists { return order, nil }
GetStart(t, id) ==
    /\ FreeThread(t)
    /\ ncalls < MaxCalls
    /\ ncalls' = ncalls + 1
    /\ cache' = CacheAfterGet(cache, id)
    /\ LET r == CacheGet(cache, id)
           c0 == [NoCall EXCEPT !.start = StartOf(id)]
       IN  IF GetHit(r)
           THEN /\ ev' = [id |-> id, src |-> "cache", fn |-> NoResult,
                          callers |->
                            {Caller("hit", c0, Result(r.value, NoErr))}]
                /\ UNCHANGED <<pc, key, call>>
           ELSE /\ ev' = NoEvent
                /\ call' = [call EXCEPT ![t] = c0]
                /\ key' = [key EXCEPT ![t] = id]
                /\ pc' = [pc EXCEPT ![t] = "do"]
    /\ NamesId(id)
    /\ UNCHANGED <<cacheVars, store, group, fres, nfSeen, ncreates>>
    /\ UNCHANGED <<wr, cons, vcall, db, http>>

\* a leader that fetches without looking in the cache again
FnCachedNever(r) == FALSE

\* fn: the exists of if order, exists := s.cache.Get(id); exists
FnCached(r) == r.ok

\* group.Do(id, fn), no call in flight for id: register one and run fn,
\* which starts: if order, exists := s.cache.Get(id); exists { return }
DoLead(t) ==
    /\ pc[t] = "do"
    /\ FlightKey(key[t]) \notin DOMAIN group
    /\ group' = MapPut(group, FlightKey(key[t]), Flight(t))
    /\ cache' = CacheAfterGet(cache, key[t])
    /\ LET r == CacheGet(cache, key[t])
       IN  IF FnCached(r)
           THEN /\ fres' = [fres EXCEPT ![t] = Result(r.value, NoErr)]
                /\ call' = [call EXCEPT ![t].src = "cache"]
                /\ pc' = [pc EXCEPT ![t] = "fn_done"]
           ELSE /\ fres' = fres
                /\ call' = call
                /\ pc' = [pc EXCEPT ![t] = "fn_fetch"]
    /\ ev' = NoEvent
    /\ UNCHANGED <<key, cacheVars, store, nfSeen, ncalls, nids, ncreates>>
    /\ UNCHANGED <<wr, cons, vcall, db, http>>

\* group.Do(id, fn), a call in flight for id: wait for it (c.wg.Wait())
DoJoin(t) ==
    /\ pc[t] = "do"
    /\ FlightKey(key[t]) \in DOMAIN group
    /\ group' = [group EXCEPT ![FlightKey(key[t])].waiters = @ \cup {t}]
    /\ pc' = [pc EXCEPT ![t] = "wait"]
    /\ ev' = NoEvent
    /\ UNCHANGED <<cache, key, cacheVars, store, fres, call, nfSeen,
                   ncalls, nids, ncreates>>
    /\ UNCHANGED <<wr, cons, vcall, db, http>>

\* fn: order, err := s.repo.GetOrder(c, id); if err != nil { return nil, err }
FnFetch(t, fails) ==
    /\ pc[t] = "fn_fetch"
    /\ LET r == RepoGetOrder(store, key[t], fails)
       IN  /\ fres' = [fres EXCEPT ![t] = r]
           /\ call' = [u \in Threads |->
                IF u = t
                THEN [call[t] EXCEPT !.nfetch = @ + 1,
                                     !.src = IF r.err = NoErr THEN "fetch"
                                             ELSE "none"]
                ELSE IF pc[u] = "do" /\ key[u] = key[t]
                THEN [call[u] EXCEPT !.overlap = TRUE]
                ELSE call[u]]
           /\ pc' = [pc EXCEPT ![t] = FnAfterFetch(r)]
    /\ ev' = NoEvent
    /\ UNCHANGED <<cache, key, cacheVars, store, group, nfSeen, ncalls, nids,
                   ncreates>>
    /\ UNCHANGED <<wr, cons, vcall, db, http>>

\* fn: _ = s.cache.Set(id, order); return order, nil
FnSet(t) ==
    /\ pc[t] = "fn_set"
    /\ cache' = FnCacheSet(cache, key[t], fres[t].order)
    /\ call' = [call EXCEPT ![t].nset = @ + 1]
    /\ pc' = [pc EXCEPT ![t] = "fn_done"]
    /\ ev' = NoEvent
    /\ UNCHANGED <<key, cacheVars, store, group, fres, nfSeen, ncalls, nids,
                   ncreates>>
    /\ UNCHANGED <<wr, cons, vcall, db, http>>

\* group.Do: fn has returned; the call leaves the group, c.wg.Done()
\* releases the waiters, and leader and waiters return c.val, c.err
\* through the end of Get
DoFinish(t) ==
    /\ pc[t] = "fn_done"
    /\ LET id == key[t]
           ws == group[FlightKey(id)].waiters
           all == Released(t, ws)
       IN  /\ group' = MapDelete(group, FlightKey(id))
           /\ ev' = [id |-> id, src |-> call[t].src, fn |-> fres[t],
                     callers |->
                       {Caller("leader", call[t], GetResult(DoResult(t, t)))}
                       \cup {Caller("follower", call[u],
                                    GetResult(DoResult(t, u))) : u \in ws}]
           /\ pc' = [u \in Threads |-> IF u \in all THEN "idle" ELSE pc[u]]
           /\ key' = [u \in Threads |-> IF u \in all THEN 1 ELSE key[u]]
           /\ call' = [u \in Threads |->
                        IF u \in all THEN NoCall ELSE call[u]]
           /\ fres' = [fres EXCEPT ![t] = NoResult]
           /\ nfSeen' = IF fres[t].err = ErrNotFound /\ nfSeen[id] = "no"
                        THEN [nfSeen EXCEPT ![id] = "notfound"]
                        ELSE nfSeen
    /\ UNCHANGED <<cache, cacheVars, store, ncalls, nids, ncreates>>
    /\ UNCHANGED <<wr, cons, vcall, db, http>>

\* Create: return s.repo.UpsertOrder(c, order), with the next version of
\* the document for this id
Create(id, fails) ==
    /\ ncreates < MaxCreates
    /\ LET o == Order(id, store[id] + 1)
           r == ServiceCreate(store, o, fails)
       IN  /\ store' = r.store
           /\ cache' = CreateCacheEffect(cache, o, r.err)
           /\ ncreates' = IF r.err = NoErr THEN ncreates + 1 ELSE ncreates
           /\ nfSeen' = IF r.err = NoErr /\ nfSeen[id] = "notfound"
                        THEN [nfSeen EXCEPT ![id] = "created"]
                        ELSE nfSeen
    /\ ev' = NoEvent
    /\ NamesId(id)
    /\ UNCHANGED <<pc, key, cacheVars, group, fres, call, ncalls>>
    /\ UNCHANGED <<wr, cons, vcall, db, http>>

Next ==
    \/ \E t \in Threads, id \in Ids : GetStart(t, id)
    \/ \E t \in Threads : DoLead(t)
    \/ \E t \in Threads : DoJoin(t)
    \/ \E t \in Threads, fails \in BOOLEAN : FnFetch(t, fails)
    \/ \E t \in Threads : FnSet(t)
    \/ \E t \in Threads : DoFinish(t)
    \/ \E id \in Ids, fails \in BOOLEAN : Create(id, fails)

Spec == InitSvc /\ [][Next]_vars

\* ------------------------ SpecFlights: orderService.Get for several ids
\* callers ask for the ids of the orders the service handles, some of
\* them stored by earlier runs
InitFlights ==
    /\ \E lim \in SvcLimits : cache = NewCache(lim)
    /\ mu = MuFree
    /\ pc = [t \in Threads |-> "idle"]
    /\ key = [t \in Threads |-> 1]
    /\ val = [t \in Threads |-> Nil]
    /\ ret = [t \in Threads |-> NoRet]
    /\ hist = <<>>
    /\ expect = [k \in Keys |-> Nil]
    /\ \E S \in SUBSET OrderIds :
          store = [k \in Keys |-> IF k \in S THEN 1 ELSE 0]
    /\ group = <<>>
    /\ fres = [t \in Threads |-> NoResult]
    /\ call = [t \in Threads |-> NoCall]
    /\ ev = NoEvent
    /\ nfSeen = [k \in Keys |-> "no"]
    /\ ncalls = 0
    /\ nids = 0
    /\ ncreates = 0
    /\ wr = NoWrite
    /\ cons = NoConsumer
    /\ vcall = NoValidate
    /\ db = NoDb
    /\ http = NoHttp

NextFlights ==
    \/ \E t \in Threads, id \in OrderIds : GetStart(t, id)
    \/ \E t \in Threads : DoLead(t)
    \/ \E t \in Threads : DoJoin(t)
    \/ \E t \in Threads, fails \in BOOLEAN : FnFetch(t, fails)
    \/ \E t \in Threads : FnSet(t)
    \/ \E t \in Threads : DoFinish(t)

SpecFlights == InitFlights /\ [][NextFlights]_vars

\* ------------------- FairFollow: orderService.Get with fair scheduling
\* callers ask for the ids callers of the service ask for, some of them
\* stored by earlier runs
InitFollow ==
    /\ InitFlights
    /\ \A k \in Keys \ Ids : store[k] = 0

NextFollow ==
    \/ \E t \in Threads, id \in Ids : GetStart(t, id)
    \/ \E t \in Threads : DoLead(t)
    \/ \E t \in Threads : DoJoin(t)
    \/ \E t \in Threads, fails \in BOOLEAN : FnFetch(t, fails)
    \/ \E t \in Threads : FnSet(t)
    \/ \E t \in Threads : DoFinish(t)

\* a goroutine running fn is scheduled: a repo.GetOrder that was called
\* returns (each query runs under the context of its caller), and the
\* steps after it, which wait for nothing but the cache mutex, are taken
FairFollow ==
    /\ InitFollow
    /\ [][NextFollow]_vars
    /\ \A t \in Threads :
          /\ WF_vars(\E fails \in BOOLEAN : FnFetch(t, fails))
          /\ WF_vars(FnSet(t))
          /\ WF_vars(DoFinish(t))

\* --------------------- SpecWrite: orderService.Create and UpdateCache
\* one goroutine calls Create and UpdateCache, one call after the other,
\* as main and the consumer do; the database holds the orders of earlier
\* runs (ids are interchangeable: they are the first ones)
InitWrite ==
    /\ \E lim \in Limits : cache = NewCache(lim)
    /\ mu = MuFree
    /\ pc = [t \in Threads |-> "idle"]
    /\ key = [t \in Threads |-> 1]
    /\ val = [t \in Threads |-> Nil]
    /\ ret = [t \in Threads |-> NoRet]
    /\ hist = <<>>
    /\ expect = [k \in Keys |-> Nil]
    /\ \E n \in 0..NumOrders :
          store = [k \in Keys |-> IF k <= n THEN 1 ELSE 0]
    /\ group = <<>>
    /\ fres = [t \in Threads |-> NoResult]
    /\ call = [t \in Threads |-> NoCall]
    /\ ev = NoEvent
    /\ nfSeen = [k \in Keys |-> "no"]
    /\ ncalls = 0
    /\ nids = 0
    /\ ncreates = 0
    /\ wr = NoWrite
    /\ vcall = NoValidate
    /\ db = NoDb
    /\ http = NoHttp
    /\ cons = NoConsumer

writeFrame ==
    <<pc, key, cacheVars, group, fres, call, ev, nfSeen, ncalls, nids, cons,
      vcall, db, http>>

\* Create(ctx, order): return s.repo.UpsertOrder(c, order)
WriteCreate(id, fails) ==
    /\ wr.pc = "idle"
    /\ ncreates < MaxCreates
    /\ LET o == Order(id, store[id] + 1)
           r == ServiceCreate(store, o, fails)
       IN  /\ store' = r.store
           /\ cache' = CreateCacheEffect(cache, o, r.err)
           /\ ncreates' = IF r.err = NoErr THEN ncreates + 1 ELSE ncreates
           /\ wr' = [NoWrite EXCEPT !.op = "Create", !.err = r.err,
                                    !.upserts = r.upserts, !.got = <<o>>,
                                    !.before = cache]
    /\ UNCHANGED writeFrame

\* UpdateCache: orders, err := s.repo.GetRecent(c, 10);
\* if err != nil { return err }
UpdateStart(byDate, fails) ==
    /\ wr.pc = "idle"
    /\ LET r == RepoGetRecent(store, RecentCount, byDate, fails)
       IN  wr' = [NoWrite EXCEPT
                    !.pc = IF r.err # NoErr THEN "idle" ELSE "uc_loop",
                    !.todo = r.orders, !.op = "UpdateCache", !.err = r.err,
                    !.recents = <<RecentCount>>, !.got = r.orders,
                    !.before = cache]
    /\ UNCHANGED <<cache, store, ncreates, writeFrame>>

\* UpdateCache: err = s.cache.Set(order.OrderUID, order) for the next
\* order of the range; if err != nil { return err }
UpdateSet(fails) ==
    /\ wr.pc = "uc_loop"
    /\ wr.todo # <<>>
    /\ LET o == Head(wr.todo)
           r == InterfaceSet(cache, SetKeyOf(o), o, fails)
       IN  /\ cache' = r.cache
           /\ wr' = [wr EXCEPT !.pc = UpdateAfterSet(r.err),
                               !.todo = Tail(@), !.err = r.err,
                               !.sets = Append(@, Entry(SetKeyOf(o), o))]
    /\ UNCHANGED <<store, ncreates, writeFrame>>

\* UpdateCache: the range is over; return nil
UpdateReturn ==
    /\ wr.pc = "uc_loop"
    /\ wr.todo = <<>>
    /\ wr' = [wr EXCEPT !.pc = "idle"]
    /\ UNCHANGED <<cache, store, ncreates, writeFrame>>

NextWrite ==
    \/ \E id \in OrderIds, fails \in BOOLEAN : WriteCreate(id, fails)
    \/ \E byDate \in Orderings(Stored(store)), fails \in BOOLEAN :
          UpdateStart(byDate, fails)
    \/ \E fails \in BOOLEAN : UpdateSet(fails)
    \/ UpdateReturn

SpecWrite == InitWrite /\ [][NextWrite]_vars

\* ------------------------------------------ SpecConsumer: Consumer.Run
\* the bodies the i-th message of the source topic may carry: the order
\* documents are numbered by their position in the topic
Bodies(i) ==
    {Garbage} \cup
    {Doc(Order(id, i), missing) :
        id \in OrderIds, missing \in {{}, {"items"}}}

\* the topics of at most MaxMsgs messages
Topics ==
    UNION {{[i \in 1..n |-> Message(i, b[i])] :
              b \in {f \in [1..n -> UNION {Bodies(i) : i \in 1..n}] :
                        \A i \in 1..n : f[i] \in Bodies(i)}} :
           n \in 0..MaxMsgs}

\* nothing done yet for the message in hand
NoWork ==
    [creates |-> 0, writes |-> 0, senderr |-> NoErr, cancelled |-> FALSE,
     dbfails |-> FALSE, stages |-> <<>>]

\* NewConsumer(brokers, topic, groupID, dlqTopic, svc, log) reading msgs:
\* the dead-letter writer exists when dlqTopic != ""
NewConsumer(topic, dlqTopic, msgs) ==
    [pc |-> "read", topic |-> topic, dlqTopic |-> dlqTopic,
     dlqWriter |-> dlqTopic # "", src |-> msgs, m |-> NoMessage,
     o |-> Garbage, reason |-> "none", cause |-> NoErr, dlq |-> <<>>,
     cur |-> NoWork, log |-> <<>>, ret |-> NoErr, ctx |-> NoErr,
     closed |-> [reader |-> 0, writer |-> 0]]

\* main: the consumer runs on the new service, with the dead-letter topic
\* kafka.DLQ or, as NewConsumer allows, without one
InitConsumer ==
    /\ cache = NewCache(DefaultLimit)
    /\ mu = MuFree
    /\ pc = [t \in Threads |-> "idle"]
    /\ key = [t \in Threads |-> 1]
    /\ val = [t \in Threads |-> Nil]
    /\ ret = [t \in Threads |-> NoRet]
    /\ hist = <<>>
    /\ expect = [k \in Keys |-> Nil]
    /\ store = [k \in Keys |-> 0]
    /\ group = <<>>
    /\ fres = [t \in Threads |-> NoResult]
    /\ call = [t \in Threads |-> NoCall]
    /\ ev = NoEvent
    /\ nfSeen = [k \in Keys |-> "no"]
    /\ ncalls = 0
    /\ nids = 0
    /\ ncreates = 0
    /\ wr = NoWrite
    /\ vcall = NoValidate
    /\ db = NoDb
    /\ http = NoHttp
    /\ \E msgs \in Topics, dlqTopic \in {"", "kafka.DLQ"} :
          cons = NewConsumer("orders", dlqTopic, msgs)

consFrame ==
    <<pc, key, cacheVars, group, fres, call, ev, nfSeen, ncalls, nids,
      ncreates, wr, vcall, db, http>>

\* a Run that leaves the dead-letter writer open on its way out
RunDeferredReaderOnly(c) == [c.closed EXCEPT !.reader = @ + 1]

\* Run: the deferred function: c.reader.Close(), and c.dlqWriter.Close()
\* if c.dlqWriter != nil; the result counts the Close calls made
RunDeferred(c) ==
    [reader |-> c.closed.reader + 1,
     writer |-> IF c.dlqWriter THEN c.closed.writer + 1 ELSE c.closed.writer]

\* the log with the outcome of the message in hand
Logged(outcome, work) ==
    Append(cons.log,
           [msg |-> cons.m, outcome |-> outcome, reason |-> cons.reason,
            creates |-> work.creates, writes |-> work.writes,
            senderr |-> work.senderr, cancelled |-> work.cancelled,
            dbfails |-> work.dbfails, stages |-> work.stages])

\* the context given to Run is cancelled (or its deadline passes) while
\* Run is in its loop: ctx.Err() is no longer nil
ConsCancel ==
    /\ cons.pc \in {"read", "decode", "validate", "create", "dlq"}
    /\ cons.ctx = NoErr
    /\ cons' = [cons EXCEPT !.ctx = ErrCanceled,
                            !.cur.cancelled = cons.pc # "read"]
    /\ UNCHANGED <<cache, store, consFrame>>

\* Run: m, err := c.reader.ReadMessage(ctx); if err != nil { return err },
\* the deferred Close calls running on the way out. ReadMessage gives the
\* next message, the error of the reader, or ctx.Err() once ctx is done.
ConsRead(err) ==
    /\ cons.pc = "read"
    /\ err = NoErr => cons.src # <<>>
    /\ err = ErrCanceled => cons.ctx = ErrCanceled
    /\ cons.src = <<>> /\ cons.ctx = ErrCanceled => err = ErrCanceled
    /\ cons' = CASE RunAfterRead(err) = "closed" ->
                    [cons EXCEPT !.pc = "closed", !.ret = err,
                                 !.closed = RunDeferred(cons)]
                 [] RunAfterRead(err) = "decode" ->
                    [cons EXCEPT !.pc = "decode", !.m = Head(cons.src),
                                 !.src = Tail(cons.src), !.cur = NoWork,
                                 !.o = Garbage, !.reason = "none",
                                 !.cause = NoErr]
                 [] OTHER -> cons
    /\ UNCHANGED <<cache, store, consFrame>>

\* Run: if err := json.Unmarshal(m.Value, &o); err != nil
ConsDecode ==
    /\ cons.pc = "decode"
    /\ LET r == Unmarshal(cons.m.value)
       IN  cons' = IF r.err # NoErr
                   THEN [cons EXCEPT !.pc = "dlq", !.reason = ReasonDecode,
                                     !.cause = r.err,
                                     !.cur.stages = Append(@, "decode")]
                   ELSE [cons EXCEPT !.pc = "validate", !.o = r.order,
                                     !.cur.stages = Append(@, "decode")]
    /\ UNCHANGED <<cache, store, consFrame>>

\* Run: if err := validateOrder(&o); err != nil
ConsValidate ==
    /\ cons.pc = "validate"
    /\ LET err == ValidateOrder(cons.o)
       IN  cons' = [cons EXCEPT
                 !.pc = RunAfterValidate(err),
                 !.reason = IF err # NoErr THEN ReasonValidate ELSE @,
                 !.cause = IF err # NoErr THEN err ELSE @,
                 !.cur.stages = Append(@, "validate")]
    /\ UNCHANGED <<cache, store, consFrame>>

\* Run: if err := c.svc.Create(ctx, &o); err != nil
ConsCreate(fails) ==
    /\ cons.pc = "create"
    /\ LET o == cons.o.order
           r == ServiceCreate(store, o, CtxFails(cons.ctx, fails))
           work == [cons.cur EXCEPT !.creates = @ + Len(r.upserts),
                                    !.dbfails = fails,
                                    !.stages = Append(@, "create")]
           to == RunAfterCreate(r.err)
       IN  /\ store' = r.store
           /\ cache' = CreateCacheEffect(cache, o, r.err)
           /\ cons' = [cons EXCEPT
                 !.pc = to, !.cur = work,
                 !.reason = IF r.err # NoErr THEN ReasonCreate ELSE @,
                 !.cause = r.err,
                 !.ret = IF to = "closed" THEN r.err ELSE @,
                 !.closed = IF to = "closed" THEN RunDeferred(cons) ELSE @,
                 !.log = IF to = "read" THEN Logged("committed", work)
                         ELSE @]
    /\ UNCHANGED consFrame

\* Run: _ = c.sendToDLQ(ctx, m, reason, err); continue
ConsSendDLQ(fails) ==
    /\ cons.pc = "dlq"
    /\ LET r == SendToDLQ(cons.dlqWriter, cons.dlq, cons.m, cons.reason,
                          cons.cause, cons.topic,
                          CtxFails(cons.ctx, fails))
           work == [cons.cur EXCEPT !.writes = @ + r.writes,
                                    !.senderr = r.err,
                                    !.stages = Append(@, "dlq")]
           to == RunAfterDLQ(r.err)
       IN  cons' = [cons EXCEPT
                 !.pc = to, !.cur = work, !.dlq = r.dlq,
                 !.ret = IF to = "closed" THEN r.err ELSE @,
                 !.closed = IF to = "closed" THEN RunDeferred(cons) ELSE @,
                 !.log = IF to = "read" THEN Logged("failed", work) ELSE @]
    /\ UNCHANGED <<cache, store, consFrame>>

NextConsumer ==
    \/ ConsCancel
    \/ \E err \in {NoErr} \cup ReadErrors : ConsRead(err)
    \/ ConsDecode
    \/ ConsValidate
    \/ \E fails \in BOOLEAN : ConsCreate(fails)
    \/ \E fails \in BOOLEAN : ConsSendDLQ(fails)

SpecConsumer == InitConsumer /\ [][NextConsumer]_vars

\* ------------------------------------------ SpecValidate: validateOrder
\* validateOrder is called once, with an order or with nil
InitValidate ==
    /\ cache = NewCache(DefaultLimit)
    /\ mu = MuFree
    /\ pc = [t \in Threads |-> "idle"]
    /\ key = [t \in Threads |-> 1]
    /\ val = [t \in Threads |-> Nil]
    /\ ret = [t \in Threads |-> NoRet]
    /\ hist = <<>>
    /\ expect = [k \in Keys |-> Nil]
    /\ store = [k \in Keys |-> 0]
    /\ group = <<>>
    /\ fres = [t \in Threads |-> NoResult]
    /\ call = [t \in Threads |-> NoCall]
    /\ ev = NoEvent
    /\ nfSeen = [k \in Keys |-> "no"]
    /\ ncalls = 0
    /\ nids = 0
    /\ ncreates = 0
    /\ wr = NoWrite
    /\ cons = NoConsumer
    /\ db = NoDb
    /\ http = NoHttp
    /\ vcall \in {[pc |-> "call", o |-> o, err |-> NilError] :
                     o \in FieldOrders \cup {NilOrder}}

\* err := validateOrder(&o)
ValidateCall ==
    /\ vcall.pc = "call"
    /\ vcall' = [vcall EXCEPT !.pc = "done", !.err = validateOrder(vcall.o)]
    /\ UNCHANGED <<cache, pc, key, cacheVars, store, group, fres, call, ev,
                   nfSeen, ncalls, nids, ncreates, wr, cons, db, http>>

NextValidate == ValidateCall

SpecValidate == InitValidate /\ [][NextValidate]_vars

\* ------------------------------- SpecUpsert: OrderRepository.UpsertOrder
\* the database holds the orders of earlier runs, each with all its rows
\* (ids are interchangeable: they are the first ones); UpsertOrder is
\* called one call after the other
InitUpsert ==
    /\ cache = NewCache(DefaultLimit)
    /\ mu = MuFree
    /\ pc = [t \in Threads |-> "idle"]
    /\ key = [t \in Threads |-> 1]
    /\ val = [t \in Threads |-> Nil]
    /\ ret = [t \in Threads |-> NoRet]
    /\ hist = <<>>
    /\ expect = [k \in Keys |-> Nil]
    /\ store = [k \in Keys |-> 0]
    /\ group = <<>>
    /\ fres = [t \in Threads |-> NoResult]
    /\ call = [t \in Threads |-> NoCall]
    /\ ev = NoEvent
    /\ nfSeen = [k \in Keys |-> "no"]
    /\ ncalls = 0
    /\ nids = 0
    /\ ncreates = 0
    /\ wr = NoWrite
    /\ cons = NoConsumer
    /\ vcall = NoValidate
    /\ http = NoHttp
    /\ \E n \in 0..NumOrders :
          LET rows(k) == IF k <= n THEN 1 ELSE 0
          IN  db = [pc |-> "idle",
                    tables |->
                       [orders |-> [k \in OrderIds |-> rows(k)],
                        deliveries |-> [k \in OrderIds |-> rows(k)],
                        payments |-> [k \in OrderIds |-> rows(k)],
                        items |-> [r \in ItemRows |->
                                     IF r.uid <= n /\ r.ver = 1
                                     THEN 1 ELSE 0]],
                    tx |-> NoTables, ord |-> [uid |-> 0, ver |-> 0,
                                              items |-> <<>>],
                    todo |-> <<>>, before |-> NoTables, ret |-> NoErr,
                    calls |-> 0, again |-> FALSE]

upsertFrame ==
    <<cache, pc, key, cacheVars, store, group, fres, call, ev, nfSeen,
      ncalls, nids, ncreates, wr, cons, vcall, http>>

\* UpsertOrder: return fmt.Errorf("<stage>: %w", err), the deferred
\* tx.Rollback() undoing the transaction
UpsertFail(stage) ==
    [db EXCEPT !.pc = "idle", !.ret = stage,
               !.tables = TxRollback(db.tables, db.tx), !.tx = NoTables]

\* the order o is the one the call before stored: a redelivered message
Redelivery(o) == db.calls > 0 /\ db.ret = NoErr /\ o = db.ord

\* UpsertOrder: tx, err := o.db.BeginTx(ctx, ...); the calls are MaxCreates
\* orders and then one redelivery of the last one
UpsertBegin(o, fails) ==
    /\ db.pc = "idle"
    /\ \/ db.calls < MaxCreates
       \/ db.calls = MaxCreates /\ Redelivery(o)
    /\ db' = IF fails
             THEN [db EXCEPT !.ret = "begin", !.ord = o, !.calls = @ + 1,
                             !.before = db.tables, !.again = Redelivery(o)]
             ELSE [db EXCEPT !.pc = "orders", !.ret = NoErr, !.ord = o,
                             !.calls = @ + 1, !.before = db.tables,
                             !.tx = db.tables, !.again = Redelivery(o)]
    /\ UNCHANGED upsertFrame

\* UpsertOrder: the statement on table orders
UpsertOrders(fails) ==
    /\ db.pc = "orders"
    /\ db' = IF fails THEN UpsertFail("upsert orders")
             ELSE [db EXCEPT !.pc = "deliveries",
                             !.tx = ExecUpsertOrders(db.tx, db.ord)]
    /\ UNCHANGED upsertFrame

\* UpsertOrder: the statement on table deliveries
UpsertDeliveries(fails) ==
    /\ db.pc = "deliveries"
    /\ db' = IF fails THEN UpsertFail("upsert deliveries")
             ELSE [db EXCEPT !.pc = "payments",
                             !.tx = ExecUpsertDeliveries(db.tx, db.ord)]
    /\ UNCHANGED upsertFrame

\* UpsertOrder: the statement on table payments
UpsertPayments(fails) ==
    /\ db.pc = "payments"
    /\ db' = IF fails THEN UpsertFail("upsert payments")
             ELSE [db EXCEPT !.pc = "delete",
                             !.tx = ExecUpsertPayments(db.tx, db.ord)]
    /\ UNCHANGED upsertFrame

\* UpsertOrder: the DELETE of the items of the order, then on to the
\* prepared INSERT if len(ord.Items) > 0, to the commit otherwise
UpsertDeleteItems(fails) ==
    /\ db.pc = "delete"
    /\ db' = IF fails THEN UpsertFail("delete items")
             ELSE [db EXCEPT
                     !.pc = IF Len(db.ord.items) > 0 THEN "prepare"
                            ELSE "commit",
                     !.tx = ExecDeleteItems(db.tx, db.ord)]
    /\ UNCHANGED upsertFrame

\* UpsertOrder: stmt, err := tx.PrepareContext(ctx, INSERT INTO items ...)
UpsertPrepare(fails) ==
    /\ db.pc = "prepare"
    /\ db' = IF fails THEN UpsertFail("prepare items")
             ELSE [db EXCEPT !.pc = "insert", !.todo = db.ord.items]
    /\ UNCHANGED upsertFrame

\* UpsertOrder: for _, it := range ord.Items { stmt.ExecContext(...) }
UpsertInsertItem(fails) ==
    /\ db.pc = "insert"
    /\ db' = IF fails THEN [UpsertFail("insert item") EXCEPT !.todo = <<>>]
             ELSE [db EXCEPT
                     !.pc = IF Len(db.todo) > 1 THEN "insert" ELSE "commit",
                     !.todo = Tail(db.todo),
                     !.tx = ExecInsertItem(db.tx, db.ord, Head(db.todo))]
    /\ UNCHANGED upsertFrame

\* UpsertOrder: if err := tx.Commit(); err != nil {...}; return nil
UpsertCommit(fails) ==
    /\ db.pc = "commit"
    /\ db' = IF fails THEN UpsertFail("commit")
             ELSE [db EXCEPT !.pc = "idle", !.ret = NoErr,
                             !.tables = TxCommit(db.tables, db.tx),
                             !.tx = NoTables]
    /\ UNCHANGED upsertFrame

NextUpsert ==
    \/ \E o \in FullOrders, fails \in BOOLEAN : UpsertBegin(o, fails)
    \/ \E fails \in BOOLEAN : UpsertOrders(fails)
    \/ \E fails \in BOOLEAN : UpsertDeliveries(fails)
    \/ \E fails \in BOOLEAN : UpsertPayments(fails)
    \/ \E fails \in BOOLEAN : UpsertDeleteItems(fails)
    \/ \E fails \in BOOLEAN : UpsertPrepare(fails)
    \/ \E fails \in BOOLEAN : UpsertInsertItem(fails)
    \/ \E fails \in BOOLEAN : UpsertCommit(fails)

SpecUpsert == InitUpsert /\ [][NextUpsert]_vars

\* ------------------------------------ SpecHttp: Handler.getOrderHandler
\* the server answers one request after the other; the database holds the
\* orders of earlier runs
InitHttp ==
    /\ \E lim \in SvcLimits : cache = NewCache(lim)
    /\ mu = MuFree
    /\ pc = [t \in Threads |-> "idle"]
    /\ key = [t \in Threads |-> 1]
    /\ val = [t \in Threads |-> Nil]
    /\ ret = [t \in Threads |-> NoRet]
    /\ hist = <<>>
    /\ expect = [k \in Keys |-> Nil]
    /\ \E n \in 0..NumOrders :
          store = [k \in Keys |-> IF k <= n THEN 1 ELSE 0]
    /\ group = <<>>
    /\ fres = [t \in Threads |-> NoResult]
    /\ call = [t \in Threads |-> NoCall]
    /\ ev = NoEvent
    /\ nfSeen = [k \in Keys |-> "no"]
    /\ ncalls = 0
    /\ nids = 0
    /\ ncreates = 0
    /\ wr = NoWrite
    /\ cons = NoConsumer
    /\ vcall = NoValidate
    /\ db = NoDb
    /\ http = [pc |-> "idle", id |-> EmptyId, known |-> FALSE,
               res |-> NoResult,
               resp |-> [status |-> 0, msg |-> "", order |-> Nil]]

\* getOrderHandler for GET with order_uid id: the whole handler, with the
\* call of h.Order.Get when the id is not empty
HttpGet(id, fails) ==
    /\ http.pc \in {"idle", "done"}
    /\ ncalls < MaxCalls
    /\ ncalls' = ncalls + 1
    /\ LET g == IF id = EmptyId THEN [cache |-> cache, res |-> NoResult]
                ELSE ServiceGet(cache, store, id, fails)
       IN  /\ cache' = g.cache
           /\ http' = [pc |-> "done", id |-> id,
                       known |-> /\ id # EmptyId
                                 /\ \/ id \in DOMAIN cache.data
                                    \/ store[id] # 0,
                       res |-> g.res,
                       resp |-> HandlerResponse(id, g.res)]
    /\ UNCHANGED <<pc, key, cacheVars, store, group, fres, call, ev, nfSeen,
                   nids, ncreates, wr, cons, vcall, db>>

NextHttp ==
    \E id \in {EmptyId} \cup OrderIds, fails \in BOOLEAN : HttpGet(id, fails)

SpecHttp == InitHttp /\ [][NextHttp]_vars

\* ------------------------------------------------- claims about the cache
RECURSIVE RecentDistinct(_, _, _)
\* the n distinct keys most recently inserted according to history h
RecentDistinct(h, n, acc) ==
    IF Len(h) = 0 \/ Cardinality(acc) >= n THEN acc
    ELSE RecentDistinct(SubSeq(h, 1, Len(h) - 1), n, acc \cup {Last(h)})

\* no Set is between Lock and Unlock
NoSetRunning == mu.writer = NoThread

\* C1: once the Sets made so far have all returned and more than limit
\* distinct keys have been inserted, the keys present are exactly the limit
\* distinct keys most recently inserted.
C1_RetainsMostRecentlyInserted ==
    (NoSetRunning /\ Cardinality(Range(hist)) > cache.limit) =>
        /\ DOMAIN cache.data = RecentDistinct(hist, cache.limit, {})
        /\ Cardinality(DOMAIN cache.data) = cache.limit

\* limit 2, Set(1), Set(2), Set(3): 1 is absent, 2 and 3 are present
C1_Witness ==
    /\ NoSetRunning
    /\ cache.limit = 2
    /\ hist = <<1, 2, 3>>
    /\ DOMAIN cache.data = {2, 3}
    /\ CacheGet(cache, 1).ok = FALSE

\* goroutine t takes the step that enters Set(k, _) with k already cached
SetsPresentKey(t) ==
    /\ pc[t] = "idle"
    /\ mu'.writer = t
    /\ key'[t] \in DOMAIN cache.data

\* C2: a Set on a key already present keeps the number of entries and the
\* order of the keys in the list, replaces that key's value only, and goes
\* straight to the unlock, which changes nothing.
C2_UpdateKeepsSizeAndPosition ==
    [][\A t \in Threads :
        /\ SetsPresentKey(t) =>
            /\ Len(cache'.order) = Len(cache.order)
            /\ DOMAIN cache'.data = DOMAIN cache.data
            /\ OrderKeys(cache') = OrderKeys(cache)
            /\ \A i \in DOMAIN cache.order :
                  cache'.order[i].value =
                     IF cache.order[i].key = key'[t] THEN val'[t]
                     ELSE cache.order[i].value
            /\ pc'[t] = "set_unlock"
        /\ pc[t] = "set_unlock" => cache' = cache]_vars

\* a Set on key 1, present and in front of key 2, is at its unlock: key 1
\* carries version 2 and is still in front of key 2
C2_Witness ==
    \E t \in Threads :
        /\ pc[t] = "set_unlock"
        /\ key[t] = 1
        /\ hist = <<1, 2>>
        /\ cache.order = <<Entry(1, Order(1, 2)), Entry(2, Order(2, 1))>>

\* C3: a Get returns (nil, false) for a key never set or evicted and not
\* set again, and (v, true) with v the value of the last Set of the key
\* otherwise.
C3_GetReturnsLastSet ==
    \A t \in Threads :
        pc[t] = "get_runlock" =>
            ret[t] = IF expect[key[t]] = Nil
                     THEN [value |-> Nil, ok |-> FALSE]
                     ELSE [value |-> expect[key[t]], ok |-> TRUE]

\* two Gets at once under limit 1: a hit on the key inserted last, a miss
\* on the key it evicted
C3_Witness ==
    \E t, u \in Threads :
        /\ pc[t] = "get_runlock" /\ pc[u] = "get_runlock"
        /\ ret[t] = [value |-> Order(key[t], 2), ok |-> TRUE]
        /\ cache.order = <<Entry(key[t], Order(key[t], 2))>>
        /\ ret[u] = [value |-> Nil, ok |-> FALSE]
        /\ hist = <<key[u], key[t]>>

\* C4: in every state, also inside a Set, the list and the index hold at
\* most limit entries, and no step changes the limit.
C4_SizeWithinFixedLimit ==
    /\ [](/\ Len(cache.order) <= cache.limit
          /\ Cardinality(DOMAIN cache.data) <= cache.limit
          /\ cache.limit \in Limits)
    /\ [][cache'.limit = cache.limit]_vars

\* a full cache of limit 2 after an eviction, a Get running
C4_Witness ==
    /\ cache.limit = 2
    /\ Len(cache.order) = 2
    /\ Cardinality(DOMAIN cache.data) = 2
    /\ Len(hist) = 3
    /\ \E t \in Threads : pc[t] = "get_runlock"

\* C5: a step of a Get, hit or miss, leaves index, list and limit as they
\* are; so does every step taken while a Get holds the read lock.
C5_GetLeavesCacheUnchanged ==
    [][\A t \in Threads :
        (pc'[t] = "get_runlock" \/ pc[t] = "get_runlock") =>
            cache' = cache]_vars

\* a hit on the front key of a full cache: it stays in front
C5_Witness ==
    \E t \in Threads :
        /\ pc[t] = "get_runlock"
        /\ ret[t].ok
        /\ Len(cache.order) = cache.limit
        /\ Len(cache.order) >= 2
        /\ cache.order[1].key = key[t]

\* ----------------------------------------- claims about orderService.Get
\* the goroutines running fn for id
Leaders(id) ==
    {t \in Threads : pc[t] \in {"fn_fetch", "fn_set", "fn_done"} /\ key[t] = id}

\* the callers of the Get calls that returned in the last step
Returned == ev.callers

\* C6 as stated: of the Get calls for one id that are in progress at the
\* same time, all having missed the cache, at most one calls repo.GetOrder:
\* no call fetches after a call it overlapped with has fetched.
C6_OneFetchForConcurrentCalls ==
    \A t \in Threads : ~(call[t].nfetch = 1 /\ call[t].overlap)

\* C6 amended: the callers that entered group.Do while one call for the id
\* was in flight share that call: one goroutine at a time runs fn for an
\* id, a waiting caller makes no repo.GetOrder, the leader makes at most
\* one, and all callers of the flight return the same order and error.
C6_CoalescedCallersShareOneFetch ==
    /\ \A id \in Ids : Cardinality(Leaders(id)) <= 1
    /\ \A id \in DOMAIN group :
          /\ Leaders(id) = {group[id].leader}
          /\ \A u \in group[id].waiters :
                pc[u] = "wait" /\ key[u] = id /\ call[u].nfetch = 0
    /\ \A t \in Threads :
          /\ call[t].nfetch <= 1
          /\ pc[t] = "wait" => t \in group[key[t]].waiters
    /\ \A c \in Returned :
          /\ c.nfetch <= 1
          /\ c.role = "follower" => c.nfetch = 0
          /\ \A d \in Returned : d.out = c.out

\* a leader and a waiter return the same database error after one fetch
C6_Witness ==
    /\ \E c \in Returned :
          c.role = "leader" /\ c.nfetch = 1 /\ c.out = Result(Nil, ErrIO)
    /\ \E c \in Returned :
          c.role = "follower" /\ c.nfetch = 0 /\ c.out = Result(Nil, ErrIO)

\* C7: when a Get returns an order that came from repo.GetOrder, to the
\* leader or to a waiter, the leader has made its cache.Set before.
C7_SetBeforeFetchedOrderReturns ==
    \A c \in Returned :
        (ev.src = "fetch" /\ c.out.err = NoErr) =>
            /\ c.out.order = Order(ev.id, c.out.order.ver)
            /\ c.out.order.ver >= 1
            /\ \E l \in Returned :
                  l.role = "leader" /\ l.nfetch = 1 /\ l.nset = 1

\* a waiter returns the fetched order, the leader having set the cache
C7_Witness ==
    /\ ev.src = "fetch"
    /\ \E c \in Returned :
          c.role = "follower" /\ c.out = Result(Order(ev.id, 1), NoErr)
    /\ \E l \in Returned : l.role = "leader" /\ l.nset = 1
    /\ ev.id \in DOMAIN cache.data

\* the step in which a Get(id) begins
StartsGet(id) ==
    /\ ncalls' = ncalls + 1
    /\ \/ ev'.id = id
       \/ \E t \in Threads : pc[t] = "idle" /\ pc'[t] = "do" /\ key'[t] = id

\* C8: a Get(id) that begins with id in the cache returns in that step the
\* cached order with a nil error; cache, store, calls in flight and every
\* goroutine's position stay as they are: no repo.GetOrder, no cache.Set.
C8_HitReturnsCachedWithoutFetchOrSet ==
    [][\A id \in DOMAIN cache.data :
        StartsGet(id) =>
            /\ ev'.id = id /\ ev'.src = "cache"
            /\ \E i \in DOMAIN cache.order :
                  /\ cache.order[i].key = id
                  /\ ev'.callers =
                        {[role |-> "hit",
                          out |-> Result(cache.order[i].value, NoErr),
                          start |-> StartOf(id), nfetch |-> 0, nset |-> 0,
                          overlap |-> FALSE]}
            /\ cache' = cache /\ store' = store /\ group' = group
            /\ pc' = pc /\ fres' = fres /\ call' = call]_vars

\* a Get has just returned the cached order from a hit
C8_Witness ==
    /\ ev.src = "cache"
    /\ ev.id \in DOMAIN cache.data
    /\ \E c \in Returned :
          /\ c.role = "hit"
          /\ c.out = Result(Order(ev.id, 1), NoErr)
          /\ c.nfetch = 0 /\ c.nset = 0

\* C9: for an id the store does not hold, the cache holds no entry; fn
\* goes from a repo.GetOrder that did not fail otherwise to its return with
\* ErrNotFound, past the cache.Set; and the callers get a nil order with
\* ErrNotFound, the call having made no cache.Set.
C9_NotFoundLeavesCacheAlone ==
    /\ \A id \in Keys : store[id] = 0 => id \notin DOMAIN cache.data
    /\ \A t \in Threads :
          (/\ call[t].nfetch = 1
           /\ store[key[t]] = 0
           /\ fres[t].err # ErrIO) =>
              /\ fres[t] = Result(Nil, ErrNotFound)
              /\ pc[t] = "fn_done"
              /\ call[t].nset = 0
    /\ \A c \in Returned :
          (store[ev.id] = 0 /\ c.out.err # ErrIO) =>
              /\ c.out = Result(Nil, ErrNotFound)
              /\ c.nset = 0
              /\ ev.src = "none"

\* a Get of an id absent from cache and store has returned ErrNotFound
\* after its fetch, the cache still empty
C9_Witness ==
    /\ ev.id \in Ids
    /\ store[ev.id] = 0
    /\ cache.order = <<>> /\ DOMAIN cache.data = {}
    /\ \E c \in Returned :
          /\ c.role = "leader" /\ c.nfetch = 1 /\ c.nset = 0
          /\ c.out = Result(Nil, ErrNotFound)

\* C10 as stated: a Get(id) that begins after a Get(id) returned
\* ErrNotFound and a Create then stored id does not return ErrNotFound.
C10_NextGetAfterCreateFindsOrder ==
    \A c \in Returned :
        c.start = "stored_after_notfound" => c.out.err # ErrNotFound

\* C10 amended: ErrNotFound is never put in the cache, and a Get(id) that
\* begins after a Get(id) returned ErrNotFound and a Create then stored id
\* returns a stored order of that id when it takes it from the cache or
\* leads the fetch; it returns ErrNotFound only as a waiter of a call whose
\* Get began before the Create.
C10_NotFoundNeverCached ==
    /\ \A i \in DOMAIN cache.order :
          /\ cache.order[i].value # Nil
          /\ store[cache.order[i].key] > 0
    /\ \A c \in Returned :
          c.start = "stored_after_notfound" =>
              /\ (c.role # "follower" /\ c.out.err # ErrIO) =>
                    /\ c.out.err = NoErr
                    /\ c.out.order = Order(ev.id, c.out.order.ver)
                    /\ c.out.order.ver \in 1..store[ev.id]
              /\ c.out.err = ErrNotFound =>
                    /\ c.role = "follower"
                    /\ \E l \in Returned :
                          l.role = "leader" /\ l.start = "absent"

\* after an ErrNotFound and a Create, a Get leads a fetch and returns the
\* stored order
C10_Witness ==
    /\ ev.src = "fetch"
    /\ \E c \in Returned :
          /\ c.start = "stored_after_notfound"
          /\ c.role = "leader"
          /\ c.out = Result(Order(ev.id, 1), NoErr)

\* C11: when repo.GetOrder fails, fn returns that error without a
\* cache.Set, and every caller of the call gets a nil order with exactly
\* that error, ErrNotFound or the database's, the call having made no Set.
C11_FetchErrorReturnedAsIs ==
    /\ \A t \in Threads :
          fres[t].err # NoErr =>
              /\ fres[t] = Result(Nil, fres[t].err)
              /\ fres[t].err \in {ErrNotFound, ErrIO}
              /\ pc[t] = "fn_done"
              /\ call[t].nfetch = 1 /\ call[t].nset = 0
    /\ ev.fn.err # NoErr =>
          /\ ev.src = "none"
          /\ \A c \in Returned :
                c.out = Result(Nil, ev.fn.err) /\ c.nset = 0

\* leader and waiter have returned the database's error, nothing cached
C11_Witness ==
    /\ ev.fn = Result(Nil, ErrIO)
    /\ \E c \in Returned : c.role = "leader" /\ c.out.err = ErrIO
    /\ \E c \in Returned : c.role = "follower" /\ c.out.err = ErrIO
    /\ DOMAIN cache.data = {}

\* ------------------------- claims about Create and UpdateCache
\* the writer's last call was op and has returned
Returns(op) == wr.op = op /\ wr.pc = "idle"

\* C12: when Create has returned, with nil or with an error, the cache has
\* the keys, values and FIFO order it had when Create was called.
C12_CreateLeavesCacheAlone ==
    Returns("Create") =>
        /\ cache = wr.before
        /\ OrderKeys(cache) = OrderKeys(wr.before)
        /\ DOMAIN cache.data = DOMAIN wr.before.data

\* Create has stored version 2 of an order; the cache still holds version 1
C12_Witness ==
    /\ Returns("Create")
    /\ wr.err = NoErr
    /\ wr.got = <<Order(1, 2)>>
    /\ store[1] = 2
    /\ cache.order = <<Entry(1, Order(1, 1))>>

\* C13: Create hands the given order to repo.UpsertOrder once and returns
\* its result: nil exactly when the order is now stored, the database's
\* error exactly when the store is as it was.
C13_CreateReturnsUpsertResult ==
    Returns("Create") =>
        /\ Len(wr.got) = 1
        /\ wr.upserts = wr.got
        /\ wr.err \in {NoErr, ErrIO}
        /\ wr.err = NoErr => store[wr.got[1].uid] = wr.got[1].ver
        /\ wr.err = ErrIO => store[wr.got[1].uid] = wr.got[1].ver - 1

\* a Create of a new order has returned the database's error after one
\* UpsertOrder; the order is not stored
C13_Witness ==
    /\ Returns("Create")
    /\ wr.err = ErrIO
    /\ wr.upserts = <<Order(1, 1)>>
    /\ store[1] = 0

\* the cache.Set calls for a list of orders, in its order
SetsFor(orders) ==
    [i \in DOMAIN orders |-> Entry(orders[i].uid, orders[i])]

\* C14: UpdateCache calls repo.GetRecent once, with 10; its Sets are
\* Set(order.OrderUID, order) for the returned orders, in their order, all
\* of them once it has returned nil; started on an empty cache with no
\* more orders than the limit, the cache then holds exactly those orders.
C14_UpdateCacheSetsRecentInOrder ==
    wr.op = "UpdateCache" =>
        /\ wr.recents = <<RecentCount>>
        /\ wr.err # ErrIO =>
              /\ Len(wr.got) =
                    IF Cardinality(Stored(store)) < RecentCount
                    THEN Cardinality(Stored(store)) ELSE RecentCount
              /\ \A i \in DOMAIN wr.got :
                    wr.got[i] = Order(wr.got[i].uid, store[wr.got[i].uid])
              /\ \A i, j \in DOMAIN wr.got :
                    wr.got[i].uid = wr.got[j].uid => i = j
        /\ wr.sets = SubSeq(SetsFor(wr.got), 1, Len(wr.sets))
        /\ (wr.pc = "idle" /\ wr.err = NoErr) =>
              /\ wr.sets = SetsFor(wr.got)
              /\ (wr.before.order = <<>> /\ Len(wr.got) <= cache.limit) =>
                    /\ cache.order = SetsFor(wr.got)
                    /\ DOMAIN cache.data = {wr.got[i].uid : i \in DOMAIN wr.got}
                    /\ \A k \in DOMAIN cache.data : cache.data[k] = k

\* UpdateCache has primed an empty cache with the two stored orders, the
\* more recent one, id 2, first
C14_Witness ==
    /\ Returns("UpdateCache")
    /\ wr.err = NoErr
    /\ wr.before.order = <<>>
    /\ wr.got = <<Order(2, 1), Order(1, 1)>>
    /\ OrderKeys(cache) = <<2, 1>>
    /\ DOMAIN cache.data = {1, 2}

RECURSIVE AfterSets(_, _)
\* the cache c after the Sets of the list sets, one after the other
AfterSets(c, sets) ==
    IF sets = <<>> THEN c
    ELSE AfterSets(CacheSet(c, Head(sets).key, Head(sets).value), Tail(sets))

\* C15: UpdateCache returns the error of a failed repo.GetRecent without
\* any Set; it goes on only after a Set that returned nil, and returns the
\* error of the first failed Set with no Set made for the orders after it
\* and the Sets made before it still in the cache.
C15_UpdateCacheStopsAtFirstError ==
    wr.op = "UpdateCache" =>
        /\ wr.pc = "uc_loop" => wr.err = NoErr
        /\ wr.err = ErrIO =>
              wr.pc = "idle" /\ wr.sets = <<>> /\ cache = wr.before
        /\ wr.err = ErrSet =>
              /\ wr.pc = "idle"
              /\ Len(wr.sets) + Len(wr.todo) = Len(wr.got)
              /\ wr.sets = SubSeq(SetsFor(wr.got), 1, Len(wr.sets))
              /\ cache =
                   AfterSets(wr.before, SubSeq(wr.sets, 1, Len(wr.sets) - 1))
        /\ wr.err \in {NoErr, ErrIO, ErrSet}

\* the Set of the second of two orders failed: UpdateCache has returned
\* that error, the first order is in the cache, the second is not
C15_Witness ==
    /\ Returns("UpdateCache")
    /\ wr.err = ErrSet
    /\ Len(wr.got) = 2 /\ Len(wr.sets) = 2
    /\ wr.before.order = <<>>
    /\ cache.order = <<wr.sets[1]>>
    /\ wr.sets[2].key \notin DOMAIN cache.data

\* ------------------------------------------- claims about Consumer.Run
\* the outcomes logged so far, one per message handled
Handled == Range(cons.log)

\* the dead-letter records written for the message of log entry e
DlqFor(e) ==
    {i \in DOMAIN cons.dlq : cons.dlq[i].key = e.msg.key}

\* the error header of a dead-letter record: the last but two
ErrorHeader(d) == d.headers[Len(d.headers) - 2]

\* entry e's message is in the dead-letter topic once, body unchanged,
\* with the error header made of reason and cause
DeadLettered(e, reason, cause) ==
    /\ Cardinality(DlqFor(e)) = 1
    /\ \A i \in DlqFor(e) :
          /\ cons.dlq[i].value = e.msg.value
          /\ ErrorHeader(cons.dlq[i]) =
                [key |-> "error", value |-> <<reason, cause>>]

\* C16 as stated: a message whose body does not decode is forwarded with
\* the reason invalid_payload.
C16_DecodeFailureIsInvalidPayload ==
    \A e \in Handled :
        ~e.msg.value.json => e.reason = "invalid_payload"

\* C16 amended: a message whose body does not decode is handled without a
\* Create and forwarded with the reason invalid_json; when the dead-letter
\* write is made and succeeds the record carries the body unchanged.
C16_DecodeFailureIsInvalidJson ==
    \A e \in Handled :
        ~e.msg.value.json =>
            /\ e.outcome = "failed"
            /\ e.reason = "invalid_json"
            /\ e.creates = 0
            /\ (e.writes = 1 /\ e.senderr = NoErr) =>
                  DeadLettered(e, "invalid_json", "ErrJSON")

\* an undecodable message is in the dead-letter topic as it was read
C16_Witness ==
    \E e \in Handled :
        /\ e.msg.value = Garbage
        /\ e.creates = 0
        /\ DeadLettered(e, "invalid_json", "ErrJSON")
        /\ store = [k \in Keys |-> 0]

\* C17: a decoded message that fails validateOrder is forwarded with the
\* reason schema_validation without a Create; a message that passes is
\* given to Create once and, when Create fails, forwarded with the reason
\* business_error.
C17_ReasonNamesFailedStage ==
    \A e \in Handled :
        e.msg.value.json =>
            IF e.msg.value.missing # {}
            THEN /\ e.outcome = "failed"
                 /\ e.reason = "schema_validation"
                 /\ e.creates = 0
                 /\ (e.writes = 1 /\ e.senderr = NoErr) =>
                       DeadLettered(e, "schema_validation", "ErrValidation")
            ELSE /\ e.creates = 1
                 /\ e.outcome = "failed" =>
                       /\ e.reason = "business_error"
                       /\ (e.writes = 1 /\ e.senderr = NoErr) =>
                             DeadLettered(e, "business_error", ErrIO)
                 /\ e.outcome = "committed" =>
                       e.writes = 0 /\ DlqFor(e) = {}

\* an invalid order and a valid one whose Create failed are both in the
\* dead-letter topic, each under its reason
C17_Witness ==
    /\ \E e \in Handled :
          /\ e.msg.value.json /\ e.msg.value.missing # {}
          /\ DeadLettered(e, "schema_validation", "ErrValidation")
    /\ \E e \in Handled :
          /\ e.msg.value.json /\ e.msg.value.missing = {}
          /\ DeadLettered(e, "business_error", ErrIO)

\* the number of messages read so far
NumRead == Len(cons.log) + (IF cons.pc \in {"read", "closed"} THEN 0 ELSE 1)

\* the last message for id that Create stored, 0 when there is none
LastCommitted(id) ==
    LET at == {i \in DOMAIN cons.log :
                 /\ cons.log[i].outcome = "committed"
                 /\ cons.log[i].msg.value.order.uid = id}
    IN  IF at = {} THEN 0 ELSE CHOOSE i \in at : \A j \in at : j <= i

\* C18: Run returns only when a read fails; while a message is in hand a
\* next step of Run is possible; the messages are handled one by one in
\* the order of the topic, none skipped after a failure; and the store
\* holds per id the last message that went through Create, as if the
\* failed messages had not been in the topic.
C18_FailureDoesNotStopIngestion ==
    /\ cons.pc = "closed" => cons.ret \in ReadErrors
    /\ cons.pc \in {"decode", "validate", "create", "dlq"} =>
          ENABLED NextConsumer
    /\ \A i \in DOMAIN cons.log : cons.log[i].msg.key = i
    /\ \A j \in DOMAIN cons.src : cons.src[j].key = NumRead + j
    /\ cons.pc \notin {"read", "closed"} => cons.m.key = NumRead
    /\ \A e \in Handled :
          e.outcome = "committed" <=>
              (e.msg.value.json /\ e.msg.value.missing = {}
               /\ e.reason = "none")
    /\ \A id \in OrderIds : store[id] = LastCommitted(id)

\* the first message failed, the second was read after it and stored
C18_Witness ==
    /\ Len(cons.log) = 2
    /\ cons.log[1].outcome = "failed"
    /\ cons.log[2].outcome = "committed"
    /\ store[cons.log[2].msg.value.order.uid] = 2
    /\ cons.pc = "read"

\* C19: a failed dead-letter write is made once, leaves no record, and
\* does not make Run return: Run goes back to read the next message.
C19_DlqWriteFailureSwallowed ==
    /\ \A e \in Handled :
          e.senderr # NoErr =>
              /\ e.outcome = "failed"
              /\ e.writes = 1
              /\ DlqFor(e) = {}
    /\ cons.ret \in {NoErr} \cup ReadErrors
    /\ cons.cur.senderr # NoErr => cons.pc \in {"read", "closed", "decode"}
    /\ cons.cur.writes <= 1

\* the dead-letter write for the first message failed; the second message
\* has been read and handled
C19_Witness ==
    /\ Len(cons.log) = 2
    /\ cons.log[1].senderr = "ErrWrite"
    /\ cons.log[1].writes = 1
    /\ cons.dlq = <<>>
    /\ cons.pc = "read"

\* C20: the dead-letter writer exists exactly when dlqTopic is not empty;
\* without it a failed message causes no write, sendToDLQ returns nil,
\* and Run goes back to read the next message.
C20_NoDlqConfiguredNoWrite ==
    /\ cons.dlqWriter <=> cons.dlqTopic # ""
    /\ cons.dlqTopic = "" =>
          /\ cons.dlq = <<>>
          /\ cons.cur.writes = 0 /\ cons.cur.senderr = NoErr
          /\ \A e \in Handled : e.writes = 0 /\ e.senderr = NoErr
          /\ cons.ret \in {NoErr} \cup ReadErrors

\* without a dead-letter topic, a message failed, nothing was written and
\* the next message was handled
C20_Witness ==
    /\ cons.dlqTopic = ""
    /\ Len(cons.log) = 2
    /\ cons.log[1].outcome = "failed"
    /\ cons.log[1].writes = 0
    /\ cons.dlq = <<>>

\* C21: a record of the dead-letter topic has the key and the body of the
\* source message it was written for, and as headers that message's
\* headers followed by error (reason and cause), origin-topic (the source
\* topic) and timestamp; the source message, in hand or logged, is still
\* the message the topic held.
C21_DlqRecordIsSourcePlusDiagnostics ==
    /\ \A i \in DOMAIN cons.dlq :
          LET d == cons.dlq[i]
              n == Len(d.headers)
          IN  \E e \in Handled :
                /\ e.outcome = "failed"
                /\ d.key = e.msg.key
                /\ d.value = e.msg.value
                /\ n = Len(e.msg.headers) + 3
                /\ SubSeq(d.headers, 1, n - 3) = e.msg.headers
                /\ d.headers[n - 2].key = "error"
                /\ d.headers[n - 2].value[1] = e.reason
                /\ d.headers[n - 2].value[2] # NoErr
                /\ d.headers[n - 1] =
                      [key |-> "origin-topic", value |-> cons.topic]
                /\ d.headers[n].key = "timestamp"
    /\ \A e \in Handled : e.msg = Message(e.msg.key, e.msg.value)
    /\ cons.pc \in {"decode", "validate", "create", "dlq"} =>
          cons.m = Message(cons.m.key, cons.m.value)

\* a dead-letter record for an invalid order: the source header first,
\* then the three diagnostic headers
C21_Witness ==
    \E i \in DOMAIN cons.dlq :
        /\ cons.dlq[i].value.json
        /\ Len(cons.dlq[i].headers) = 4
        /\ cons.dlq[i].headers[1] = [key |-> "h", value |-> cons.dlq[i].key]
        /\ cons.dlq[i].headers[2] =
              [key |-> "error",
               value |-> <<"schema_validation", "ErrValidation">>]
        /\ cons.dlq[i].headers[3] = [key |-> "origin-topic", value |-> "orders"]

\* what the order must satisfy for field f
RuleHolds(o, f) ==
    CASE f = "items" -> o.items > 0
      [] f = "date_created" -> o.date_created # 0
      [] f = "sm_id" -> o.sm_id >= 0
      [] OTHER -> o[f] # ""

\* the order of a finished validateOrder call was accepted
Accepted == vcall.pc = "done" /\ vcall.err = NilError

\* C22: validateOrder accepts an order exactly when OrderUID, TrackNumber,
\* Entry, CustomerID, DeliveryService, ShardKey and OofShard are
\* non-empty, Items is non-empty, DateCreated is not the zero time and
\* SmID >= 0; no other field matters, and nil is rejected.
C22_AcceptsIffAllRulesHold ==
    vcall.pc = "done" =>
        IF vcall.o = NilOrder THEN ~Accepted
        ELSE Accepted <=>
               \A f \in {"order_uid", "track_number", "entry", "customer_id",
                          "delivery_service", "shardkey", "oof_shard",
                          "items", "date_created", "sm_id"} :
                   RuleHolds(vcall.o, f)

\* an order with every required field set and SmID 0 was accepted
C22_Witness ==
    /\ Accepted
    /\ vcall.o # NilOrder
    /\ vcall.o.sm_id = 0
    /\ vcall.o.items = 1

\* how often text occurs among the parts of the error
Occurrences(parts, text) ==
    Cardinality({i \in DOMAIN parts : parts[i] = text})

\* C23: for a non-nil order the error validateOrder returns carries one
\* entry for every rule the order violates and none for a rule that
\* holds, whatever the number of violations.
C23_ErrorNamesEveryViolation ==
    (vcall.pc = "done" /\ vcall.o # NilOrder) =>
        /\ \A i \in DOMAIN Rules :
              Occurrences(vcall.err.parts, Rules[i].text) =
                 IF RuleHolds(vcall.o, Rules[i].field) THEN 0 ELSE 1
        /\ Len(vcall.err.parts) =
              Cardinality({i \in DOMAIN Rules :
                              ~RuleHolds(vcall.o, Rules[i].field)})

\* an order without order_uid, without items and with a negative SmID was
\* rejected with exactly these three entries
C23_Witness ==
    /\ vcall.pc = "done"
    /\ vcall.o # NilOrder
    /\ vcall.err =
          Error("validation failed: ",
                <<"order_uid is required", "items must be non-empty",
                  "sm_id must be >= 0">>)

\* the Close calls Run makes on its way out, for this consumer
ClosedOnce ==
    [reader |-> 1, writer |-> IF cons.dlqWriter THEN 1 ELSE 0]

\* C24: a Run that waits for the next message with its context cancelled
\* returns the cancellation error; whenever Run has returned, the reader
\* was closed once and the dead-letter writer, when there is one, once;
\* nothing is closed while Run is in its loop.
C24_CancelledRunClosesAndReturns ==
    /\ [](/\ cons.pc = "closed" =>
               cons.closed = ClosedOnce /\ cons.ret \in ReadErrors
          /\ cons.pc # "closed" =>
               cons.closed = [reader |-> 0, writer |-> 0]
          /\ cons.ret = ErrCanceled => cons.ctx = ErrCanceled)
    /\ [][(/\ cons.pc = "read"
           /\ cons.ctx = ErrCanceled
           /\ cons.src = <<>>) =>
             /\ cons'.pc = "closed"
             /\ cons'.ret = ErrCanceled
             /\ cons'.closed = ClosedOnce]_cons

\* Run, with a dead-letter writer, has handled a message, found its
\* context cancelled while waiting for the next one, and returned
C24_Witness ==
    /\ cons.pc = "closed"
    /\ cons.ret = ErrCanceled
    /\ cons.src = <<>>
    /\ cons.dlqWriter
    /\ cons.closed = [reader |-> 1, writer |-> 1]
    /\ Len(cons.log) >= 1
    /\ \A e \in Handled : ~e.cancelled

\* C25: a message in hand when the cancellation arrives ends as it would
\* have without it: a valid order whose Create does not fail on its own
\* is committed.
C25_CancelledMessageFinishesAsWithout ==
    \A e \in Handled :
        (/\ e.cancelled
         /\ e.msg.value.json
         /\ e.msg.value.missing = {}
         /\ ~e.dbfails) => e.outcome = "committed"

\* an UpsertOrder call has returned
UpsertReturned == db.pc = "idle" /\ db.calls > 0

\* C26: UpsertOrder is all-or-nothing: when it returns nil, the orders,
\* deliveries and payments rows and the items of the order's id are those
\* of the given order, its old items gone, and the rows of other ids are
\* as before; when it returns an error, whatever statement or the commit
\* failed, the tables are as before the call; and while the transaction
\* runs the tables are as before the call.
C26_UpsertAllOrNothing ==
    /\ (UpsertReturned /\ db.ret = NoErr) =>
          LET o == db.ord
              t == db.tables
          IN  /\ t.orders[o.uid] = o.ver
              /\ t.deliveries[o.uid] = o.ver
              /\ t.payments[o.uid] = o.ver
              /\ \A r \in ItemRows :
                    r.uid = o.uid =>
                       t.items[r] =
                          IF r.ver = o.ver
                             /\ \E i \in DOMAIN o.items : o.items[i] = r.chrt
                          THEN 1 ELSE 0
              /\ \A k \in OrderIds \ {o.uid} :
                    /\ t.orders[k] = db.before.orders[k]
                    /\ t.deliveries[k] = db.before.deliveries[k]
                    /\ t.payments[k] = db.before.payments[k]
              /\ \A r \in ItemRows :
                    r.uid # o.uid => t.items[r] = db.before.items[r]
    /\ (UpsertReturned /\ db.ret # NoErr) => db.tables = db.before
    /\ db.pc \notin {"idle", "off"} => db.tables = db.before

\* an order stored with all its items was replaced by a newer one with
\* one item only, and that item is the only one left
C26_Witness ==
    /\ UpsertReturned
    /\ db.ret = NoErr
    /\ db.before.orders[db.ord.uid] = 1
    /\ db.ord.ver = 2
    /\ db.ord.items = <<2>>
    /\ \A c \in ChrtIds :
          db.before.items[[uid |-> db.ord.uid, chrt |-> c, ver |-> 1]] = 1
    /\ \A r \in ItemRows :
          r.uid = db.ord.uid =>
             db.tables.items[r] = IF r.chrt = 2 /\ r.ver = 2 THEN 1 ELSE 0

\* an insert of the second item failed and the order kept its old rows
C26_WitnessRolledBack ==
    /\ UpsertReturned
    /\ db.ret = "insert item"
    /\ db.ord.ver = 2
    /\ db.tables.orders[db.ord.uid] = 1
    /\ \A c \in ChrtIds :
          db.tables.items[[uid |-> db.ord.uid, chrt |-> c, ver |-> 1]] = 1

\* C27: the response to a lookup of an identifier that neither the cache
\* nor the store knows is not a success response.
C27_UnknownIdIsNotSuccess ==
    (/\ http.pc = "done"
     /\ http.id # EmptyId
     /\ ~http.known
     /\ http.res.err = ErrNotFound) =>
        http.resp.status \notin StatusOK..(StatusOK + 99)

\* the goroutines running fn for id
Fetching(id) ==
    {u \in Threads : pc[u] \in {"fn_fetch", "fn_set", "fn_done"} /\ key[u] = id}

\* C28: Get calls for different ids never wait on each other: a suspended
\* caller is suspended on a flight whose leader runs fn for the caller's
\* own id, and a caller entering group.Do while no fn runs for its id
\* starts its own fn and cannot be made to wait, whatever is in flight
\* for other ids.
C28_DifferentIdsDoNotWait ==
    /\ \A k \in DOMAIN group :
          \A u \in group[k].waiters : key[u] = key[group[k].leader]
    /\ \A t \in Threads :
          pc[t] = "wait" =>
             \E k \in DOMAIN group :
                 t \in group[k].waiters /\ group[k].leader \in Fetching(key[t])
    /\ \A t \in Threads :
          (pc[t] = "do" /\ Fetching(key[t]) = {}) =>
              ENABLED DoLead(t) /\ ~ENABLED DoJoin(t)

\* two fetches for different ids are in flight at the same time
C28_Witness ==
    \E t \in Threads, u \in Threads :
        /\ pc[t] = "fn_fetch"
        /\ pc[u] = "fn_fetch"
        /\ key[t] # key[u]
        /\ DOMAIN group = {key[t], key[u]}

\* C29: a follower of a coalesced Get calls repo.GetOrder never; it is
\* suspended exactly while it is registered with a flight, leaves the
\* wait only in the step in which the leader's call ends, returns what fn
\* returned to the leader, and, the leader's fetch returning, it does
\* return.
C29_FollowerReturnsLeadersResult ==
    /\ [](\A t \in Threads :
            /\ pc[t] = "wait" =>
                  /\ call[t].nfetch = 0
                  /\ \E k \in DOMAIN group :
                        /\ t \in group[k].waiters
                        /\ group[k].leader \in Fetching(key[t])
            /\ pc[t] # "wait" =>
                  \A k \in DOMAIN group : t \notin group[k].waiters)
    /\ [](\A c \in Returned :
            c.role = "follower" =>
                /\ c.nfetch = 0
                /\ c.out = GetResult(ev.fn)
                /\ \E d \in Returned : d.role = "leader" /\ d.out = c.out)
    /\ [][\A t \in Threads :
            (pc[t] = "wait" /\ pc'[t] # "wait") =>
                /\ pc'[t] = "idle"
                /\ ev'.id = key[t]
                /\ pc[group[FlightKey(key[t])].leader] = "fn_done"]_vars
    /\ \A t \in Threads : (pc[t] = "wait") ~> (pc[t] = "idle")

\* a follower returned the order its leader fetched, having fetched
\* nothing itself
C29_Witness ==
    /\ ev.src = "fetch"
    /\ ev.fn.err = NoErr
    /\ \E c \in Returned :
          c.role = "follower" /\ c.nfetch = 0 /\ c.out = ev.fn
                              /\ c.out.order # Nil

\* the last n elements of sequence s
Suffix(s, n) == SubSeq(s, Len(s) - n + 1, Len(s))

\* the position of key k in the list
PosIn(order, k) == CHOOSE i \in DOMAIN order : order[i].key = k

\* the keys the list holds
KeysIn(order) == {order[i].key : i \in DOMAIN order}

\* C30: whatever the interleaving of the Set calls, once no Set is in its
\* critical section the list holds the keys in the order in which the
\* Sets that inserted them took the lock, oldest first, and no step swaps
\* two keys that are in the list before and after it.
C30_FifoOrderIsLockOrder ==
    /\ [](NoSetRunning =>
            /\ Len(cache.order) <= Len(hist)
            /\ OrderKeys(cache) = Suffix(hist, Len(cache.order)))
    /\ [][\A a \in KeysIn(cache.order) \cap KeysIn(cache'.order),
            b \in KeysIn(cache.order) \cap KeysIn(cache'.order) :
              PosIn(cache.order, a) < PosIn(cache.order, b) =>
                 PosIn(cache'.order, a) < PosIn(cache'.order, b)]_vars

\* limit 2: three Sets, of different goroutines, inserted three keys; the
\* list holds the last two in the order of their Sets
C30_Witness ==
    /\ NoSetRunning
    /\ cache.limit = 2
    /\ Len(hist) = 3
    /\ Cardinality(Range(hist)) = 3
    /\ OrderKeys(cache) = <<hist[2], hist[3]>>
    /\ \E t \in Threads : pc[t] # "idle"

\* the cache holds limit entries
Full == Cardinality(DOMAIN cache.data) >= cache.limit

\* goroutine t takes the step that enters Set(k, _) with k not cached
SetsAbsentKey(t) ==
    /\ pc[t] = "idle"
    /\ mu'.writer = t
    /\ key'[t] \notin DOMAIN cache.data

\* C31: a Set of an absent key on a full cache goes through one eviction,
\* which takes the front entry, and only it, out of the index and out of
\* the list; a Set of an absent key on a cache that is not full goes to
\* the insert at once; the steps of the insert remove nothing; and every
\* entry that stays in the list keeps its value and its place relative
\* to the others.
C31_EvictsExactlyTheFront ==
    [][\A t \in Threads :
         /\ SetsAbsentKey(t) =>
               /\ cache' = cache
               /\ pc'[t] = IF Full THEN "set_evict_index" ELSE "set_push"
         /\ pc[t] = "set_evict_index" =>
               /\ DOMAIN cache'.data =
                     DOMAIN cache.data \ {cache.order[1].key}
               /\ cache'.order = cache.order
               /\ pc'[t] = "set_evict_list"
         /\ pc[t] = "set_evict_list" =>
               /\ cache'.order = Tail(cache.order)
               /\ cache'.data = cache.data
               /\ pc'[t] = "set_push"
         /\ pc[t] \in {"set_push", "set_index", "set_unlock"} =>
               /\ DOMAIN cache.data \subseteq DOMAIN cache'.data
               /\ Len(cache'.order) >= Len(cache.order)
               /\ SubSeq(cache'.order, 1, Len(cache.order)) = cache.order
               /\ pc'[t] \notin {"set_evict_index", "set_evict_list"}]_vars

\* limit 2, keys 1 and 2 cached: Set(3) has taken key 1, the front, out
\* of index and list and is about to insert
C31_Witness ==
    \E t \in Threads :
        /\ pc[t] = "set_push"
        /\ key[t] = 3
        /\ cache.limit = 2
        /\ hist = <<1, 2, 3>>
        /\ OrderKeys(cache) = <<2>>
        /\ DOMAIN cache.data = {2}

\* index and list of cache c describe the same entries
Consistent(c) ==
    /\ \A k \in DOMAIN c.data :
          /\ c.data[k] = k
          /\ Cardinality({i \in DOMAIN c.order : c.order[i].key = k}) = 1
    /\ \A i \in DOMAIN c.order : c.order[i].key \in DOMAIN c.data
    /\ \A i \in DOMAIN c.order, j \in DOMAIN c.order :
          c.order[i].key = c.order[j].key => i = j
    /\ Len(c.order) = Cardinality(DOMAIN c.data)

\* some Set is between its eviction and the end of its insert
HalfApplied ==
    \E t \in Threads :
        pc[t] \in {"set_evict_list", "set_push", "set_index"}

\* C32: whenever no Set holds the lock, which is when a Get or a Set
\* takes it, and as long as a Get holds its read lock, index and list
\* describe the same entries: each indexed key has exactly one list
\* element, each list element is indexed, no key occurs twice, the
\* lengths are equal; and no Get is inside while a Set is half applied.
C32_IndexAndListAgree ==
    /\ NoSetRunning => Consistent(cache)
    /\ \A t \in Threads :
          pc[t] = "get_runlock" =>
             /\ t \in mu.readers
             /\ Consistent(cache)
             /\ ~HalfApplied
             /\ NoSetRunning

\* a Get is inside a cache of limit 2 that has evicted an entry, while
\* the other goroutine is outside
C32_Witness ==
    /\ cache.limit = 2
    /\ Len(hist) = 3
    /\ Len(cache.order) = 2
    /\ \E t \in Threads : pc[t] = "get_runlock" /\ ret[t].ok

\* a Set is half applied: the evicted key is out of the index and still
\* in the list, and no Get is inside
C32_WitnessHalfApplied ==
    /\ HalfApplied
    /\ ~Consistent(cache)
    /\ mu.readers = {}

\* every call has returned
AllReturned == \A t \in Threads : pc[t] = "idle"

\* C33: once all calls have returned, if the Sets made so far inserted no
\* more distinct keys than the limit, however they and the Gets were
\* interleaved, every one of these keys is present with the value of its
\* last Set.
C33_NoSetLost ==
    (AllReturned /\ Cardinality(Range(hist)) <= cache.limit) =>
        \A k \in Range(hist) :
            /\ CacheGet(cache, k).ok
            /\ CacheGet(cache, k).value = expect[k]
            /\ expect[k] # Nil

\* limit 2: two Sets inserted keys 2 and 1, all calls have returned and
\* both keys are present
C33_Witness ==
    /\ AllReturned
    /\ cache.limit = 2
    /\ hist = <<2, 1>>
    /\ CacheGet(cache, 1).ok
    /\ CacheGet(cache, 2).ok

\* the stages a message may have gone through when its handling ends
StageRuns ==
    {<<"decode", "dlq">>, <<"decode", "validate", "dlq">>,
     <<"decode", "validate", "create">>,
     <<"decode", "validate", "create", "dlq">>}

\* sequence s is the beginning of sequence r
IsPrefix(s, r) == Len(s) <= Len(r) /\ SubSeq(r, 1, Len(s)) = s

\* C34: every message read goes through decode, validate and Create in
\* this order, stopping at the first stage that fails, and is fully
\* handled, with one outcome, before the next is read; Create is called
\* at most once for it, and only if it decoded and passed validateOrder;
\* sendToDLQ is called at most once for it, and only if a stage failed.
C34_StagesInOrderOneOutcome ==
    /\ \A e \in Handled :
          /\ e.stages \in StageRuns
          /\ e.outcome \in {"committed", "failed"}
          /\ e.outcome = "committed" <=> Last(e.stages) = "create"
          /\ e.creates = Cardinality({i \in DOMAIN e.stages :
                                        e.stages[i] = "create"})
          /\ e.creates = 1 =>
                /\ e.msg.value.json
                /\ validateOrder(Decoded(e.msg.value.missing)) = NilError
          /\ Last(e.stages) = "dlq" =>
                \/ ~e.msg.value.json
                \/ validateOrder(Decoded(e.msg.value.missing)) # NilError
                \/ e.creates = 1 /\ e.reason = "business_error"
          /\ e.writes <= 1
    /\ \E r \in StageRuns : IsPrefix(cons.cur.stages, r)
    /\ cons.pc = "read" => cons.cur.stages \in StageRuns \cup {<<>>}
    /\ cons.pc \in {"decode", "validate", "create", "dlq"} =>
          /\ Len(cons.log) = cons.m.key - 1
          /\ cons.cur.stages # <<>> <=> cons.pc # "decode"
          /\ cons.pc = "dlq" <=> cons.reason # "none"
    /\ \A i \in DOMAIN cons.log : cons.log[i].msg.key = i

\* the first message decoded and failed validation, the second went
\* through all three stages and its Create failed
C34_Witness ==
    /\ Len(cons.log) >= 2
    /\ cons.log[1].stages = <<"decode", "validate", "dlq">>
    /\ cons.log[2].stages = <<"decode", "validate", "create", "dlq">>

\* C35 as stated: with a dead-letter destination configured, every
\* message that failed a stage has a record there.
C35_EveryFailedMessageDeadLettered ==
    cons.dlqWriter =>
        \A e \in Handled : e.outcome = "failed" => DlqFor(e) # {}

\* C35 amended: with a dead-letter destination configured, every message
\* that failed a stage is written to it once, and has its one record
\* there unless that write failed; a message whose write failed has no
\* record, and a committed message has none.
C35_FailedMessageForwardedOnce ==
    cons.dlqWriter =>
        \A e \in Handled :
            /\ e.outcome = "failed" =>
                  /\ e.writes = 1
                  /\ e.senderr = NoErr =>
                        /\ Cardinality(DlqFor(e)) = 1
                        /\ \A i \in DlqFor(e) :
                              cons.dlq[i].value = e.msg.value
                  /\ e.senderr # NoErr => DlqFor(e) = {}
            /\ e.outcome = "committed" => e.writes = 0 /\ DlqFor(e) = {}

\* two messages failed: the first has its dead-letter record, the write
\* for the second failed and it has none
C35_Witness ==
    /\ cons.dlqWriter
    /\ Len(cons.log) = 2
    /\ cons.log[1].outcome = "failed"
    /\ cons.log[1].senderr = NoErr
    /\ Len(cons.dlq) = 1
    /\ cons.dlq[1].key = 1
    /\ cons.log[2].outcome = "failed"
    /\ cons.log[2].senderr = "ErrWrite"
    /\ ~cons.log[2].cancelled
    /\ cons.ctx = NoErr

\* C36: Run returns only from the read of the next message, and only
\* with the error of that read, never nil; while it waits for a message
\* any read error, the reader's own without any cancellation as well as
\* the cancellation, makes it return that error; and a step that decodes, validates, stores or dead-letters a
\* message never ends Run, whatever failed.
C36_RunReturnsOnlyOnReadError ==
    /\ [](/\ cons.pc = "closed" <=> cons.ret # NoErr
          /\ cons.pc = "closed" => cons.ret \in ReadErrors
          /\ (cons.pc = "read" /\ cons.ctx = NoErr) =>
                ENABLED (/\ ConsRead("ErrRead")
                         /\ cons'.pc = "closed"
                         /\ cons'.ret = "ErrRead")
          /\ (cons.pc = "read" /\ cons.ctx = ErrCanceled) =>
                ENABLED (/\ ConsRead(ErrCanceled)
                         /\ cons'.pc = "closed"
                         /\ cons'.ret = ErrCanceled))
    /\ [][/\ cons'.pc = "closed" => cons.pc \in {"read", "closed"}
          /\ cons.pc \in {"decode", "validate", "create", "dlq"} =>
                /\ cons'.pc \in {cons.pc, "validate", "create", "dlq", "read"}
                /\ cons'.ret = NoErr]_cons

\* Run returned the error of a read that failed without any cancellation,
\* after a message whose Create and dead-letter write had both failed
C36_Witness ==
    /\ cons.pc = "closed"
    /\ cons.ret = "ErrRead"
    /\ cons.ctx = NoErr
    /\ Len(cons.log) >= 1
    /\ cons.log[1].stages = <<"decode", "validate", "create", "dlq">>
    /\ cons.log[1].senderr = "ErrWrite"

\* ------------------------------- SpecPrime: orders with all their parts
\* a model.Order as a query of the repository fills it: the orders row in
\* its version, the Delivery and Payment structs, and Items
Detail(id, ver, delivery, payment, items) ==
    [uid |-> id, ver |-> ver, delivery |-> delivery, payment |-> payment,
     items |-> items]

\* the zero model.Delivery or model.Payment of var o model.Order
ZeroPart == 0

\* the nil *model.Order of a failed query
NilDetail == Detail(EmptyId, 0, ZeroPart, ZeroPart, <<>>)

\* GetOrder: the rows of qSelItems ... ORDER BY id, appended to o.Items
RECURSIVE RowsInOrder(_, _)
RowsInOrder(rows, S) ==
    IF S = {} THEN <<>>
    ELSE LET r == CHOOSE x \in S : \A y \in S : x.chrt <= y.chrt
         IN  [i \in 1..rows[r] |-> [chrt |-> r.chrt, ver |-> r.ver]]
                \o RowsInOrder(rows, S \ {r})

\* orderRepository.GetOrder(ctx, orderUID): the orders row, or ErrNotFound
\* without one; then the delivery and the payment (the zero struct when
\* the row is missing) and the items
DbGetOrder(t, id, fails) ==
    IF fails THEN Result(NilDetail, ErrIO)
    ELSE IF t.orders[id] = 0 THEN Result(NilDetail, ErrNotFound)
    ELSE Result(Detail(id, t.orders[id], t.deliveries[id], t.payments[id],
                       RowsInOrder(t.items,
                                   {r \in ItemRows : r.uid = id})),
                NoErr)

\* orderRepository.GetRecent(ctx, limit): SELECT ... FROM orders ORDER BY
\* date_created DESC LIMIT $1, each row scanned into the fields of the
\* orders table of a fresh model.Order
DbGetRecent(t, limit, byDate, fails) ==
    IF fails THEN [orders |-> <<>>, err |-> ErrIO]
    ELSE LET n == IF Len(byDate) < limit THEN Len(byDate) ELSE limit
         IN  [orders |-> [i \in 1..n |->
                            Detail(byDate[i], t.orders[byDate[i]],
                                   ZeroPart, ZeroPart, <<>>)],
              err |-> NoErr]

\* UpdateCache: for _, order := range orders { s.cache.Set(order.OrderUID,
\* order) } on a Cache, whose Set returns nil
RECURSIVE UpdateCacheSets(_, _)
UpdateCacheSets(c, orders) ==
    IF orders = <<>> THEN c
    ELSE UpdateCacheSets(CacheSet(c, SetKeyOf(Head(orders)), Head(orders)),
                         Tail(orders))

\* orderService.UpdateCache(ctx) over the tables: the cache after it and
\* its error
ServiceUpdateCache(c, t, byDate, fails) ==
    LET r == DbGetRecent(t, RecentCount, byDate, fails)
    IN  IF r.err # NoErr THEN [cache |-> c, err |-> r.err]
        ELSE [cache |-> UpdateCacheSets(c, r.orders), err |-> NoErr]

\* orderService.Get(ctx, id) of a caller running alone, over the tables
ServiceGetDetail(c, t, id, fails) ==
    LET hit == CacheGet(c, id)
        r == DbGetOrder(t, id, fails)
    IN  IF GetHit(hit)
        THEN [cache |-> CacheAfterGet(c, id), hit |-> TRUE,
              res |-> Result(hit.value, NoErr)]
        ELSE [cache |-> IF FnAfterFetch(r) = "fn_set"
                        THEN FnCacheSet(c, id, r.order) ELSE c,
              hit |-> FALSE,
              res |-> GetResult(r)]

\* no call of the service made yet
NoServe ==
    [op |-> "none", id |-> EmptyId, hit |-> FALSE,
     res |-> Result(NilDetail, NoErr), err |-> NoErr, primed |-> {}]

\* the service starts with an empty cache on a database that holds the
\* orders of earlier runs, each with its delivery, payment and items
InitPrime ==
    /\ \E lim \in SvcLimits : cache = NewCache(lim)
    /\ mu = MuFree
    /\ pc = [t \in Threads |-> "idle"]
    /\ key = [t \in Threads |-> 1]
    /\ val = [t \in Threads |-> Nil]
    /\ ret = [t \in Threads |-> NoRet]
    /\ hist = <<>>
    /\ expect = [k \in Keys |-> Nil]
    /\ store = [k \in Keys |-> 0]
    /\ group = <<>>
    /\ fres = [t \in Threads |-> NoResult]
    /\ call = [t \in Threads |-> NoCall]
    /\ ev = NoEvent
    /\ nfSeen = [k \in Keys |-> "no"]
    /\ ncalls = 0
    /\ nids = 0
    /\ ncreates = 0
    /\ wr = NoServe
    /\ cons = NoConsumer
    /\ vcall = NoValidate
    /\ http = NoHttp
    /\ \E n \in 0..NumOrders : \E its \in [1..n -> ItemSeqs] :
          LET rows(k) == IF k <= n THEN 1 ELSE 0
          IN  db = [pc |-> "idle",
                    tables |->
                       [orders |-> [k \in OrderIds |-> rows(k)],
                        deliveries |-> [k \in OrderIds |-> rows(k)],
                        payments |-> [k \in OrderIds |-> rows(k)],
                        items |-> [r \in ItemRows |->
                                     IF /\ r.uid <= n
                                        /\ r.ver = 1
                                        /\ \E i \in DOMAIN its[r.uid] :
                                              its[r.uid][i] = r.chrt
                                     THEN 1 ELSE 0]]]

primeFrame ==
    <<pc, key, cacheVars, store, group, fres, call, ev, nfSeen, nids,
      ncreates, cons, vcall, db, http>>

\* main: orderService.UpdateCache(ctx), GetRecent giving the stored
\* orders in the order byDate
PrimeUpdateCache(byDate, fails) ==
    /\ ncalls < MaxCalls
    /\ LET r == ServiceUpdateCache(cache, db.tables, byDate, fails)
       IN  /\ cache' = r.cache
           /\ wr' = [wr EXCEPT !.op = "UpdateCache", !.id = EmptyId,
                               !.hit = FALSE,
                               !.res = Result(NilDetail, NoErr),
                               !.err = r.err,
                               !.primed = IF r.err = NoErr
                                          THEN @ \cup {byDate[i] :
                                                  i \in DOMAIN byDate}
                                          ELSE @]
    /\ ncalls' = ncalls + 1
    /\ UNCHANGED primeFrame

\* a request: orderService.Get(ctx, id)
PrimeGet(id, fails) ==
    /\ ncalls < MaxCalls
    /\ LET r == ServiceGetDetail(cache, db.tables, id, fails)
       IN  /\ cache' = r.cache
           /\ wr' = [wr EXCEPT !.op = "Get", !.id = id, !.hit = r.hit,
                               !.res = r.res, !.err = r.res.err]
    /\ ncalls' = ncalls + 1
    /\ UNCHANGED primeFrame

NextPrime ==
    \/ \E byDate \in Orderings({k \in OrderIds : db.tables.orders[k] > 0}),
          fails \in BOOLEAN : PrimeUpdateCache(byDate, fails)
    \/ \E id \in OrderIds, fails \in BOOLEAN : PrimeGet(id, fails)

SpecPrime == InitPrime /\ [][NextPrime]_vars

\* C37: an order that orderService.Get serves from the cache is the order
\* repo.GetOrder returns for that id, with its delivery, payment and
\* items, also when UpdateCache put the entry there from repo.GetRecent
C37_CachedOrderIsFetchedOrder ==
    wr.op = "Get" /\ wr.hit =>
        Result(wr.res.order, wr.res.err) = DbGetOrder(db.tables, wr.id, FALSE)

\* a Get served from an entry that a Get put there after its fetch
C37_WitnessFetched ==
    /\ wr.op = "Get" /\ wr.hit
    /\ wr.id \notin wr.primed
    /\ wr.res.order.delivery # ZeroPart

\* C40: storing the same order a second time through UpsertOrder leaves
\* the tables as the first store left them: for the order's id one orders
\* row, one delivery, one payment and each item of the order once.
C40_StoringTwiceIsStoringOnce ==
    (UpsertReturned /\ db.again /\ db.ret = NoErr) =>
        LET o == db.ord
            t == db.tables
        IN  /\ t = db.before
            /\ t.orders[o.uid] = o.ver
            /\ t.deliveries[o.uid] = o.ver
            /\ t.payments[o.uid] = o.ver
            /\ \A r \in ItemRows :
                  r.uid = o.uid =>
                     t.items[r] =
                        IF r.ver = o.ver
                           /\ \E i \in DOMAIN o.items : o.items[i] = r.chrt
                        THEN 1 ELSE 0

\* an order with every item was stored and then stored again
C40_Witness ==
    /\ UpsertReturned
    /\ db.again
    /\ db.ret = NoErr
    /\ db.calls = MaxCreates + 1
    /\ Len(db.ord.items) = NumChrt
    /\ db.tables.items[[uid |-> db.ord.uid, chrt |-> 1, ver |-> db.ord.ver]] = 1

\* the step in which goroutine t becomes the leader of a call of group.Do
BecomesLeader(t) == pc[t] = "do" /\ pc'[t] \in {"fn_fetch", "fn_done"}

\* C39: a caller that becomes leader for id looks in the cache again
\* inside the flight: with id cached it ends fn with the cached order and
\* returns it without a repo.GetOrder or a cache.Set, otherwise it goes on
\* to the fetch; so, the Get calls being the only ones that set the
\* cache, a repo.GetOrder for id runs only while id is not in the cache,
\* its earlier fetch having failed or its entry being evicted.
C39_LateLeaderRechecksCache ==
    /\ [][\A t \in Threads :
            BecomesLeader(t) =>
               IF key[t] \in DOMAIN cache.data
               THEN /\ pc'[t] = "fn_done"
                    /\ fres'[t] = Result(CacheGet(cache, key[t]).value, NoErr)
                    /\ call'[t].nfetch = 0
                    /\ store' = store
               ELSE pc'[t] = "fn_fetch"]_vars
    /\ [](\A t \in Threads :
            pc[t] = "fn_fetch" => key[t] \notin DOMAIN cache.data)
    /\ [](\A c \in Returned :
            (c.role = "leader" /\ ev.src = "cache") =>
               /\ c.nfetch = 0 /\ c.nset = 0
               /\ c.out = ev.fn
               /\ c.out.err = NoErr
               /\ c.out.order.uid = ev.id)

\* a caller missed the cache, waited to enter group.Do while the leader
\* of the time fetched, became leader after that one had finished and
\* returned the order then cached, without a fetch
C39_Witness ==
    /\ ev.src = "cache"
    /\ \E c \in Returned :
          /\ c.role = "leader"
          /\ c.overlap
          /\ c.nfetch = 0
          /\ c.out = Result(Order(ev.id, 1), NoErr)

\* a leader fetches an id again after its entry was evicted
C39_WitnessEvicted ==
    \E t \in Threads :
        /\ pc[t] = "fn_fetch"
        /\ call[t].overlap
        /\ key[t] \notin DOMAIN cache.data
        /\ store[key[t]] > 0
        /\ cache.order # <<>>

\* -------------------- SpecStale: Get, Create and UpdateCache side by side
\* the service starts with an empty cache on a store that holds the orders
\* of earlier runs
InitStale ==
    /\ \E lim \in SvcLimits : cache = NewCache(lim)
    /\ mu = MuFree
    /\ pc = [t \in Threads |-> "idle"]
    /\ key = [t \in Threads |-> 1]
    /\ val = [t \in Threads |-> Nil]
    /\ ret = [t \in Threads |-> NoRet]
    /\ hist = <<>>
    /\ expect = [k \in Keys |-> Nil]
    /\ \E n \in 0..NumIds :
          store = [k \in Keys |-> IF k <= n THEN 1 ELSE 0]
    /\ group = <<>>
    /\ fres = [t \in Threads |-> NoResult]
    /\ call = [t \in Threads |-> NoCall]
    /\ ev = NoEvent
    /\ nfSeen = [k \in Keys |-> "no"]
    /\ ncalls = 0
    /\ nids = 0
    /\ ncreates = 0
    /\ wr = NoWrite
    /\ cons = NoConsumer
    /\ vcall = NoValidate
    /\ db = NoDb
    /\ http = NoHttp

\* the Get calls of the service, Create for the ids that are cached, and
\* one UpdateCache running beside them on a Cache, whose Set returns nil
NextStale ==
    \/ \E t \in Threads, id \in Ids :
          ncalls < MaxCalls - 1 /\ GetStart(t, id)
    \/ \E t \in Threads : DoLead(t)
    \/ \E t \in Threads : DoJoin(t)
    \/ \E t \in Threads : FnFetch(t, FALSE)
    \/ \E t \in Threads : FnSet(t)
    \/ \E t \in Threads : DoFinish(t)
    \/ \E id \in Ids : id \in DOMAIN cache.data /\ Create(id, FALSE)
    \/ \E byDate \in Orderings(Stored(store)) :
          wr.op = "none" /\ UpdateStart(byDate, FALSE)
    \/ UpdateSet(FALSE)
    \/ UpdateReturn

SpecStale == InitStale /\ [][NextStale]_vars

\* the cache holds id in a version older than the one Create has stored
Stale(id) ==
    id \in DOMAIN cache.data /\ CacheGet(cache, id).value.ver < store[id]

\* the step in which UpdateCache sets an order in the cache
UpdateSets == wr.pc = "uc_loop" /\ Len(wr'.sets) > Len(wr.sets)

\* the step in which the leader of a call for id sets its fetched order
LeaderSets(id) ==
    \E t \in Threads :
        pc[t] = "fn_set" /\ key[t] = id /\ pc'[t] = "fn_done"

\* C38 as stated: Create leaves the cache as it is, and while the cache
\* holds an id in a version older than the stored one, a Get(id) returns
\* the cached version and the entry keeps it, unless the entry is evicted
\* or UpdateCache sets it.
C38_StaleUntilEvictedOrPrimed ==
    [][\A id \in Ids :
        /\ store'[id] > store[id] => cache' = cache
        /\ Stale(id) =>
              /\ StartsGet(id) =>
                    /\ ev'.src = "cache"
                    /\ \A c \in ev'.callers :
                          c.out = Result(CacheGet(cache, id).value, NoErr)
              /\ (id \in DOMAIN cache'.data /\ ~UpdateSets) =>
                    CacheGet(cache', id).value = CacheGet(cache, id).value
      ]_vars

\* C38 amended: Create leaves the cache as it is, and while the cache
\* holds an id in a version older than the stored one, a Get(id) returns
\* the cached version and the entry keeps it, unless the entry is evicted
\* or set again, by UpdateCache or by the leader of a Get(id) that found
\* the id missing before the entry was there.
C38_StaleUntilEvictedOrSetAgain ==
    [][\A id \in Ids :
        /\ store'[id] > store[id] => cache' = cache
        /\ Stale(id) =>
              /\ StartsGet(id) =>
                    /\ ev'.src = "cache"
                    /\ \A c \in ev'.callers :
                          c.out = Result(CacheGet(cache, id).value, NoErr)
              /\ (/\ id \in DOMAIN cache'.data
                  /\ ~UpdateSets
                  /\ ~LeaderSets(id)) =>
                    CacheGet(cache', id).value = CacheGet(cache, id).value
      ]_vars

\* Create has stored version 2 of a cached order, and a Get has returned
\* the cached version 1 since
C38_Witness ==
    /\ ev.src = "cache"
    /\ ev.id \in DOMAIN cache.data
    /\ store[ev.id] = 2
    /\ ncreates = 1
    /\ \E c \in Returned :
          c.role = "hit" /\ c.out = Result(Order(ev.id, 1), NoErr)

\* a leader's Set has replaced the entry UpdateCache had put there, which
\* Create had made stale
C38_WitnessLeaderSet ==
    /\ wr.sets # <<>>
    /\ ncreates = 1
    /\ \E t \in Threads :
          /\ pc[t] = "fn_done"
          /\ call[t].nset = 1
          /\ wr.sets[1] = Entry(key[t], Order(key[t], 1))
          /\ CacheGet(cache, key[t]).value = Order(key[t], 2)

====
